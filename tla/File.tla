-------------------------------- MODULE File --------------------------------
(***************************************************************************)
(* What a regular file promises to the threads that read and write it: a   *)
(* write takes effect at once and whole, and a read that succeeds returns, *)
(* for every byte that was ever written, the value written last.           *)
(***************************************************************************)
EXTENDS Integers

CONSTANTS Threads, Bytes, Requests, Hole

VARIABLES
  content,  \* the value of every position, Hole where none was written
  reply     \* the last answer that each thread got

fileVars == <<content, reply>>

None == [kind |-> "none"]

Span(r) == r.offset .. r.offset + r.count - 1

Positions == UNION {Span(r) : r \in Requests}

FileInit ==
  /\ content = [x \in Positions |-> Hole]
  /\ reply = [t \in Threads |-> None]

Write(t, r) ==
  /\ content' = [x \in Positions |-> IF x \in Span(r) THEN r.buf[x - r.offset] ELSE content[x]]
  /\ reply' = [reply EXCEPT ![t] = [kind |-> "written", req |-> r]]

\* A read that reaches a hole may fail, or return anything there.
Fails(t, r) ==
  /\ \E x \in Span(r) : content[x] = Hole
  /\ reply' = [reply EXCEPT ![t] = [kind |-> "failed", req |-> r]]
  /\ UNCHANGED content

Read(t, r) ==
  \E buf \in [0 .. r.count - 1 -> Bytes] :
    /\ \A x \in Span(r) : content[x] \in {Hole, buf[x - r.offset]}
    /\ reply' = [reply EXCEPT ![t] = [kind |-> "read", req |-> r, buf |-> buf]]
    /\ UNCHANGED content

FileNext ==
  \E t \in Threads, r \in Requests :
    \/ r.op = "write" /\ Write(t, r)
    \/ r.op = "read" /\ (Fails(t, r) \/ Read(t, r))

FileSpec == FileInit /\ [][FileNext]_fileVars
=============================================================================
