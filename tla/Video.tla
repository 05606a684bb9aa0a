------------------------------- MODULE Video -------------------------------
(***************************************************************************)
(* The retrace callbacks of src/sdk_port/vi/VI.c.  A callback is kept as a *)
(* function and, for memory dumps that must not differ from run to run, as *)
(* a token: the address of a function of the game, a small number for one  *)
(* of the host, in the order in which they were first seen.                *)
(***************************************************************************)
EXTENDS Naturals, Sequences, SequencesExt

CONSTANTS
  GameCallbacks,   \* callbacks that are addresses of the game's memory
  HostCallbacks,   \* the others
  NoCallback,
  Overflow,        \* 0xFFFFFFFF
  MaxSeen,         \* MAX, the host functions that are told apart
  MaxRetraces      \* bound on the retraces

ASSUME VideoAssumption ==
  /\ MaxSeen \in Nat /\ MaxRetraces \in Nat
  /\ NoCallback \notin GameCallbacks \cup HostCallbacks /\ GameCallbacks \cap HostCallbacks = {}
  \* Small numbers are neither addresses nor zero, nor is 0xFFFFFFFF.
  /\ (GameCallbacks \cup {NoCallback, Overflow}) \cap 1 .. MaxSeen = {}
  /\ Overflow \notin GameCallbacks \cup {NoCallback}

VARIABLES
  post, pre,      \* the callbacks: function and token
  seen,           \* the host functions that have a number
  retraceCount,
  told,           \* number and argument of the calls of the post callback
  heard           \* what the callbacks themselves were told

videoVars == <<post, pre, seen, retraceCount, told, heard>>

VideoInit ==
  /\ post = [fn |-> NoCallback, token |-> NoCallback] /\ pre = post
  /\ seen = <<>> /\ retraceCount = 0
  /\ told = [calls |-> 0, arg |-> 0] /\ heard = <<>>

\* The table after a callback was looked up, and the callback's token.
Remembered(cb) ==
  IF cb \in HostCallbacks \ ToSet(seen) /\ Len(seen) < MaxSeen THEN Append(seen, cb) ELSE seen

\* Mutant: a full table gives the number of its last entry.
LastNumber(cb) ==
  IF cb \notin HostCallbacks THEN cb
  ELSE IF cb \in ToSet(Remembered(cb)) THEN CHOOSE i \in 1 .. MaxSeen : Remembered(cb)[i] = cb
  ELSE MaxSeen

vi_cb_tokenize(cb) ==
  IF cb \notin HostCallbacks THEN cb
  ELSE IF cb \in ToSet(Remembered(cb)) THEN SelectInSeq(Remembered(cb), LAMBDA x : x = cb)
  ELSE Overflow

Installed(cb) == [fn |-> cb, token |-> vi_cb_tokenize(cb)]

VISetPostRetraceCallback(cb) ==
  /\ post' = Installed(cb) /\ seen' = Remembered(cb)
  /\ UNCHANGED <<pre, retraceCount, told, heard>>

VISetPreRetraceCallback(cb) ==
  /\ pre' = Installed(cb) /\ seen' = Remembered(cb)
  /\ UNCHANGED <<post, retraceCount, told, heard>>

\* The post callback, if there is one, is called with the new count; it may install
\* another one before the call is written down.
VIWaitForRetrace(replaced, cb) ==
  /\ retraceCount < MaxRetraces
  /\ retraceCount' = retraceCount + 1
  /\ IF post.fn = NoCallback THEN ~replaced /\ UNCHANGED <<post, seen, told, heard>>
     ELSE /\ heard' = Append(heard, retraceCount + 1)
          /\ told' = [calls |-> told.calls + 1, arg |-> retraceCount + 1]
          /\ post' = IF replaced THEN Installed(cb) ELSE post
          /\ seen' = IF replaced THEN Remembered(cb) ELSE seen
  /\ UNCHANGED pre

AnyCallback == GameCallbacks \cup HostCallbacks \cup {NoCallback}

VideoNext ==
  \E cb \in AnyCallback :
    \/ VISetPostRetraceCallback(cb)
    \/ VISetPreRetraceCallback(cb)
    \/ \E replaced \in BOOLEAN : VIWaitForRetrace(replaced, cb)

VideoSpec == VideoInit /\ [][VideoNext]_videoVars

-----------------------------------------------------------------------------
\* Tokens tell callbacks apart: post and pre have the same token just when they have the
\* same function, except for functions of the host that came after the table was full.
\* What was written down of the post callback's calls is what the callbacks were told.
CallbacksTold ==
  /\ post.token # Overflow => ((post.token = pre.token) <=> (post.fn = pre.fn))
  /\ \A c \in {post, pre} : c.token = Overflow => Len(seen) = MaxSeen /\ c.fn \notin ToSet(seen)
  /\ told.calls = Len(heard) /\ (heard # <<>> => told.arg = Last(heard))
=============================================================================
