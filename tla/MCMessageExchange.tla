------------------------- MODULE MCMessageExchange --------------------------
(***************************************************************************)
(* The codec on every message type.  Each message is a base message with   *)
(* at most one field moved to a boundary of its width or of its contract.  *)
(***************************************************************************)
EXTENDS MessageExchange

MCSample(kind) ==
  CASE kind = "u8"  -> {0, 1, 2, 100, 101, 255}
    [] kind = "u16" -> {0, 1, 16, 17, 250, 251, 258, 65535}
    [] kind = "i16" -> {-32768, -4001, -4000, -501, -500, -1, 0, 500, 501,
                        4000, 4001, 32767}
    [] kind = "u32" -> {<<0, 0>>, <<772, 258>>, <<65535, 65535>>}
    [] kind = "i32" -> {-2147483647 - 1, -66052, -1, 0, 2147483647}

MCBase(kind) ==
  CASE kind = "u8"  -> 1
    [] kind = "u16" -> 16
    [] kind = "i16" -> -3
    [] kind = "u32" -> <<772, 258>>
    [] kind = "i32" -> -66052

MCVariants(t) ==
  LET layout == DecodeLayout[t]
      base == [i \in DOMAIN layout |-> MCBase(layout[i][1])]
  IN  {base} \cup UNION {{[base EXCEPT ![i] = v] : v \in MCSample(layout[i][1])} :
                           i \in DOMAIN layout}

MCMessages ==
  UNION {{Message(t, v) : v \in MCVariants(t)} : t \in DOMAIN DecodeLayout}
    \cup {Message(t, <<>>) : t \in {"POWER_TELEMETRY", "MCU_DIAGNOSTIC", "UNKNOWN"}}

\* One byte replaced, a byte lost or added, or the payload under another type.
MCAltered(arriving) ==
  LET t == arriving[1]
      p == arriving[2]
  IN  {<<t, [p EXCEPT ![i] = v]>> : i \in DOMAIN p, v \in {0, 1, 2, 101, 127, 128, 255}}
        \cup {<<t, Append(p, 0)>>, <<t, SubSeq(p, 1, Len(p) - 1)>>}
        \cup {<<other, p>> : other \in DOMAIN TypeCode \cup {"UNKNOWN"}}

MCOldBytes == {0, 165}

\* Room for every payload, for all but the longest, and for none.
MCCapacities == {0, 18, 19}

=============================================================================
