-------------------------- MODULE MCLogAsynAppender --------------------------
(* Two messages a buffer, so that buffers are taken half full; eleven        *)
(* messages, so that more than Limit buffers pile up while a batch is        *)
(* written; two starts, so that a stop leaves messages to the next start.    *)
EXTENDS LogAsynAppender
==============================================================================
