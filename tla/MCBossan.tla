------------------------------ MODULE MCBossan ------------------------------
(***************************************************************************)
(* Small instances of the server core for TLC.  Heads and answers are      *)
(* named here; each .cfg picks the ones its question needs.                *)
(***************************************************************************)
EXTENDS BossanProperties

HeadOf(ka, minor) == [ka |-> ka, minor |-> minor, body |-> FALSE, bodyCode |-> 0,
                      expect |-> "none", code |-> 0]
Get     == HeadOf(FALSE, 1)                          \* Connection: close
GetKeep == HeadOf(TRUE, 1)
OldKeep == HeadOf(TRUE, 0)                           \* HTTP/1.0, Connection: keep-alive
Post    == [GetKeep EXCEPT !.body = TRUE]
PostBig == [Post EXCEPT !.bodyCode = 413]            \* the body is over the limit
Expect  == [Post EXCEPT !.expect = "continue"]
ExpectOther == [GetKeep EXCEPT !.expect = "other"]
BadHead == [GetKeep EXCEPT !.code = 400]

AppOf(array, body, clset) ==
  LET total == FoldSeq(LAMBDA len, sum : len + sum, 0, body)
  IN [kind |-> "answer", status |-> 200, array |-> array, body |-> body, total |-> total,
      clset |-> clset, cl |-> IF clset THEN total ELSE 0]
Text     == AppOf(TRUE, <<1>>, TRUE)                 \* an Array, Content-Length
Chunks   == AppOf(FALSE, <<1, 1>>, FALSE)            \* an each body, chunked
Stream   == AppOf(FALSE, <<1, 1, 1>>, TRUE)          \* an each body, Content-Length
Gap      == AppOf(FALSE, <<0, 1>>, FALSE)            \* an each body with an empty item
Nothing  == AppOf(TRUE, <<>>, FALSE)                 \* an empty Array, chunked
Empty    == AppOf(FALSE, <<>>, FALSE)                \* an each body without items
NotModified == [AppOf(FALSE, <<1>>, FALSE) EXCEPT !.status = 304]
Unavailable == [Text EXCEPT !.status = 503]
Malformed == [Text EXCEPT !.kind = "malformed"]
BadHeader == [Text EXCEPT !.kind = "badheader"]
Raise    == [Text EXCEPT !.kind = "raise"]

\* One request at a time: everything a peer can send, every answer
SequentialHeads == {Get, GetKeep, PostBig, BadHead, Expect, ExpectOther}
SequentialApps  == {Text, Chunks, Malformed, BadHeader, Unavailable, NotModified, Empty,
                    Raise}
\* Pipelines
PipelineHeads == {Get, GetKeep, OldKeep, BadHead}
PipelineApps  == {Text, Nothing, Chunks, Stream, Gap, Malformed}
\* A pool of kept connections
KeepHeads == {GetKeep}
TextApps  == {Text}
\* Everything that ends
LiveHeads == {GetKeep, Post}
LiveApps  == {Chunks, Stream}
=============================================================================
