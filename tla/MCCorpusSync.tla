---------------------------- MODULE MCCorpusSync ----------------------------
(***************************************************************************)
(* The corpus monitor with its own number of attempts; a corpus of two     *)
(* bytes and a limit of three stand for a few KiB and 1 MiB.               *)
(***************************************************************************)
EXTENDS CorpusSync

MCRetryHttp == {429, 503}
MCHttpErrors == MCRetryHttp \cup {404}
=============================================================================
