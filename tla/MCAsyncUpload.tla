--------------------------- MODULE MCAsyncUpload ---------------------------
(* The small instances of AsyncUpload that TLC checks.                     *)
EXTENDS AsyncUploadProperties, TLC

CONSTANTS f1, f2, f3, r1, r2, u1, w1, w2

\* One request of all the files, or two chunks; one upload.
OneRequest == [f \in Files |-> r1]
TwoRequests == [f \in Files |-> IF f = f3 THEN r2 ELSE r1]
OneUpload == [r \in Requests |-> u1]

Reliable == [c \in Calls |-> {"ok"}]
\* The image and photo calls fail, Redis does not.
DefiniteFailures ==
  [c \in Calls |-> IF c \in {"put", "create", "cuda"} THEN {"ok", "fail"}
                   ELSE {"ok"}]
\* So they do, the status writes and the reads of the stream lose their answers.
RepliesLost == [DefiniteFailures EXCEPT !["hash"] = {"ok", "fail", "lostReply"},
                                        !["read"] = {"ok", "lostReply"}]
\* Any call fails or loses its reply, except that XADD is definite.
Lossy ==
  [c \in Calls |-> IF c = "xadd" THEN {"ok", "fail"}
                   ELSE IF c \in {"hash", "ack", "remove"} THEN {"ok", "fail"}
                   ELSE {"ok", "fail", "lostReply"}]
\* XADD is executed without an answer, or again, with one or without.
AmbiguousXAdd ==
  [c \in Calls |-> IF c = "xadd" THEN OutcomeKinds
                   ELSE IF c = "create" THEN {"ok", "fail", "lostReply"} ELSE {"ok"}]

FileSymmetry == Permutations(Files)
WorkerSymmetry == Permutations(Workers)
=============================================================================
