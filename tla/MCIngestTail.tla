----------------------------- MODULE MCIngestTail -----------------------------
(* Short lines and one longer than a partial line may be; reads shorter     *)
(* than the longest line and longer than two short ones.                    *)
EXTENDS IngestTail
===============================================================================
