------------------------------- MODULE Restore -------------------------------
(***************************************************************************)
(* RestoreFromChangelog (internal/runtime/restore.go) step by step: the    *)
(* offset lookups, the stable-offset probe, the poll loop with its two     *)
(* termination signals and the atomic backend write, while the transaction *)
(* a crashed producer left open is resolved by the broker and the topic    *)
(* grows.  openTask passes the store's checkpoint, closeTask MaxInt64.     *)
(*                                                                         *)
(* A log entry has a status: "committed" data, data of an "open" or an     *)
(* "aborted" transaction, a transaction "marker", or "gone" by compaction. *)
(* The value of a data record is one more than its offset, or 0 for a      *)
(* tombstone; a store value of 0 is an absent key.                         *)
(***************************************************************************)
EXTENDS Changelog

CONSTANTS
  Keys,       \* the store's keys
  MaxLen,     \* bound on the length of the log
  Callers,    \* which callers to model, a subset of {"openTask", "closeTask"}
  OpenTxn,    \* TRUE: the log may hold records of an open transaction
  Prompt      \* TRUE: fetches are answered within catchUpTimeout

ASSUME RestoreAssumption ==
  /\ MaxLen \in Nat
  /\ MaxLen < MaxInt64
  /\ Callers \subseteq {"openTask", "closeTask"}
  /\ OpenTxn \in BOOLEAN
  /\ Prompt \in BOOLEAN

VARIABLES
  log,               \* broker: the changelog partition
  caller,            \* who called
  checkpointOffset,  \* the caller's argument
  pc,                \* where the call is
  hw,                \* the high watermark read at the start
  cursor,            \* the consumer's next fetch offset
  response,          \* offsets of the buffered fetch response, and its LSO
  lsoReachedHW,      \* an LSO at or past hw was seen
  mutations,         \* offsets of the accumulated records (applied in order)
  db,                \* the store's content
  checkpoint         \* the store's checkpoint, or -1

call == <<caller, checkpointOffset>>
backend == <<db, checkpoint>>
vars == <<log, call, pc, hw, cursor, response, lsoReachedHW, mutations, backend>>

AnyKey == CHOOSE k \in Keys : TRUE

\* The entries that may stand at 1-based place i.
Entries(i) ==
  [st : {"committed"} \cup (IF OpenTxn THEN {"open"} ELSE {}),
   key : Keys, val : {0, i}]
  \cup [st : {"aborted", "marker", "gone"}, key : {AnyKey}, val : {0}]

Logs ==
  UNION {{l \in [1 .. n -> UNION {Entries(i) : i \in 1 .. n}] :
            \A i \in 1 .. n : l[i] \in Entries(i)} : n \in 0 .. MaxLen}

\* The places of the open transaction's records.
OpenPlaces == {i \in 1 .. Len(log) : log[i].st = "open"}

\* The last stable offset: the first offset of an open transaction.
LSO ==
  IF OpenPlaces = {}
    THEN Len(log)
    ELSE (CHOOSE i \in OpenPlaces : \A j \in OpenPlaces : i <= j) - 1

\* The offsets in from .. to-1 that a read-committed fetch returns.
Visible(from, to) ==
  {o \in from .. to - 1 : o + 1 \in DOMAIN log /\ log[o + 1].st = "committed"}

\* What the committed records below offset n make of the store content base.
StateOver(base, n) ==
  [k \in Keys |->
     LET S == {o \in Visible(0, n) : log[o + 1].key = k}
     IN  IF S = {} THEN base[k] ELSE log[(CHOOSE o \in S : IsLast(S, o)) + 1].val]

Empty == [k \in Keys |-> 0]

NoResponse == [offs |-> {}, lso |-> 0]

\* The caller's store: openTask finds a state and checkpoint some earlier
\* restore left; closeTask has a live store whose last writes may not have
\* reached the changelog (its flush failed), here one more write per key.
Init ==
  /\ log \in Logs
  /\ caller \in Callers
  /\ checkpoint \in -1 .. LSO - 1
  /\ IF caller = "openTask"
       THEN /\ db = StateOver(Empty, checkpoint + 1)
            /\ checkpointOffset = checkpoint
       ELSE /\ \E K \in SUBSET Keys :
                 db = [k \in Keys |-> IF k \in K THEN MaxLen + 1
                                      ELSE StateOver(Empty, LSO)[k]]
            /\ checkpointOffset = MaxInt64
  /\ pc = "offsets"
  /\ hw = 0
  /\ cursor = 0
  /\ response = NoResponse
  /\ lsoReachedHW = FALSE
  /\ mutations = {}

-----------------------------------------------------------------------------
(* The call.                                                               *)

\* fetchHighWatermark, fetchEarliestOffset and the early return.
FetchOffsets ==
  /\ pc = "offsets"
  /\ hw' = Len(log)
  /\ cursor' = StartOffset(checkpointOffset)
  /\ pc' = IF CaughtUp(log, checkpointOffset) THEN "returned" ELSE "probe"
  /\ UNCHANGED <<log, call, response, lsoReachedHW, mutations, backend>>

\* Mutant of Probe: the high watermark stands in for the LSO.
ProbeHighWatermark ==
  /\ pc = "probe"
  /\ lsoReachedHW' = (Len(log) >= hw)
  /\ pc' = "poll"
  /\ UNCHANGED <<log, call, hw, cursor, response, mutations, backend>>

\* Mutant of Probe: no probe, only delivered responses report the LSO.
ProbeSkipped ==
  /\ pc = "probe"
  /\ lsoReachedHW' = FALSE
  /\ pc' = "poll"
  /\ UNCHANGED <<log, call, hw, cursor, response, mutations, backend>>

\* fetchReadCommittedProbe.
Probe ==
  /\ pc = "probe"
  /\ lsoReachedHW' = (LSO >= hw)
  /\ pc' = "poll"
  /\ UNCHANGED <<log, call, hw, cursor, response, mutations, backend>>

\* The consumer fetches in the background.  A response without visible records
\* moves the cursor and is not delivered.
Fetch ==
  /\ pc = "poll" /\ response = NoResponse
  /\ \E end \in cursor + 1 .. LSO :
       /\ cursor' = end
       /\ response' = IF Visible(cursor, end) = {}
                        THEN NoResponse
                        ELSE [offs |-> Visible(cursor, end), lso |-> LSO]
  /\ UNCHANGED <<log, call, pc, hw, lsoReachedHW, mutations, backend>>

\* PollFetches returns the response; applyFetches accumulates its records.
ApplyFetches ==
  /\ pc = "poll" /\ response # NoResponse
  /\ mutations' = mutations \cup response.offs
  /\ lsoReachedHW' = (lsoReachedHW \/ response.lso >= hw)
  /\ response' = NoResponse
  /\ pc' = IF \E o \in response.offs : o >= hw - 1 THEN "restore" ELSE "poll"
  /\ UNCHANGED <<log, call, hw, cursor, backend>>

\* Nothing the confirm-poll waits for can still arrive.
Drained ==
  response = NoResponse /\ Visible(cursor, LSO) = {}

\* A confirm-poll, bounded by catchUpTimeout, expires.
PollDeadline ==
  /\ pc = "poll" /\ lsoReachedHW
  /\ Prompt => Drained
  /\ pc' = "restore"
  /\ UNCHANGED <<log, call, hw, cursor, response, lsoReachedHW, mutations,
                 backend>>

\* The context is done, or a request or the backend write fails.
Fail ==
  /\ pc \in {"offsets", "probe", "poll", "restore"}
  /\ pc' = "failed"
  /\ UNCHANGED <<log, call, hw, cursor, response, lsoReachedHW, mutations,
                 backend>>

\* The store after the accumulated mutations, the last one of a key deciding.
Applied ==
  [k \in Keys |->
     LET S == {o \in mutations : log[o + 1].key = k}
     IN  IF S = {} THEN db[k] ELSE log[(CHOOSE o \in S : IsLast(S, o)) + 1].val]

LastAppliedOffset == CHOOSE o \in mutations : IsLast(mutations, o)

\* Mutant of RestoreBackend: the high watermark, not the last record applied,
\* decides the checkpoint.
RestoreBackendAtHW ==
  /\ pc = "restore"
  /\ db' = Applied
  /\ checkpoint' = hw - 1
  /\ pc' = "returned"
  /\ UNCHANGED <<log, call, hw, cursor, response, lsoReachedHW, mutations>>

\* Backend.Restore: state and checkpoint in one atomic write.  A range without
\* committed records moves the checkpoint alone.
RestoreBackend ==
  /\ pc = "restore"
  /\ db' = Applied
  /\ checkpoint' = IF mutations = {} THEN hw - 1 ELSE LastAppliedOffset
  /\ pc' = "returned"
  /\ UNCHANGED <<log, call, hw, cursor, response, lsoReachedHW, mutations>>

\* Mutant of WriteCheckpoint: the high watermark itself is the checkpoint.
WriteCheckpointPastEnd ==
  /\ pc = "returned" /\ caller = "closeTask" /\ hw > 0
  /\ checkpoint' = hw
  /\ pc' = "closed"
  /\ UNCHANGED <<log, call, hw, cursor, response, lsoReachedHW, mutations, db>>

\* closeTask writes the checkpoint again from the returned high watermark.
WriteCheckpoint ==
  /\ pc = "returned" /\ caller = "closeTask" /\ hw > 0
  /\ checkpoint' = hw - 1
  /\ pc' = "closed"
  /\ UNCHANGED <<log, call, hw, cursor, response, lsoReachedHW, mutations, db>>

-----------------------------------------------------------------------------
(* The broker.                                                             *)

\* The open transaction commits, or is aborted by its producer's successor or
\* by its timeout; a marker is appended.
Resolve(outcome) ==
  /\ OpenPlaces # {}
  /\ log' = Append([i \in 1 .. Len(log) |->
                      IF i \in OpenPlaces THEN [log[i] EXCEPT !.st = outcome]
                      ELSE log[i]],
                   [st |-> "marker", key |-> AnyKey, val |-> 0])
  /\ UNCHANGED <<call, pc, hw, cursor, response, lsoReachedHW, mutations,
                 backend>>

\* Another producer of the partition appends a record.
Grow ==
  /\ Len(log) < MaxLen
  /\ \E k \in Keys : log' = Append(log, [st |-> "committed", key |-> k,
                                         val |-> Len(log) + 1])
  /\ UNCHANGED <<call, pc, hw, cursor, response, lsoReachedHW, mutations,
                 backend>>

-----------------------------------------------------------------------------

Step ==
  \/ FetchOffsets
  \/ Probe
  \/ Fetch
  \/ ApplyFetches
  \/ PollDeadline
  \/ RestoreBackend
  \/ WriteCheckpoint

Next ==
  \/ Step
  \/ Fail
  \/ \E outcome \in {"committed", "aborted"} : Resolve(outcome)
  \/ Grow

Spec == Init /\ [][Next]_vars

\* The call is scheduled, fetches are answered, a poll with a deadline returns,
\* and the broker resolves every transaction, at the latest by its timeout.
FairSpec ==
  /\ Spec
  /\ WF_vars(Step)
  /\ WF_vars(\E outcome \in {"committed", "aborted"} : Resolve(outcome))

-----------------------------------------------------------------------------
(* Properties.                                                             *)

\* Type invariant.
TypeOK ==
  /\ \A i \in 1 .. Len(log) :
       log[i].st \in {"committed", "open", "aborted", "marker", "gone"}
  /\ pc \in {"offsets", "probe", "poll", "restore", "returned", "closed",
             "failed"}
  /\ hw \in 0 .. Len(log)
  /\ cursor \in 0 .. Len(log)
  /\ response.offs \subseteq 0 .. Len(log) - 1
  /\ lsoReachedHW \in BOOLEAN
  /\ mutations \subseteq 0 .. Len(log) - 1
  /\ checkpoint \in -1 .. Len(log) - 1

\* A store and its checkpoint always agree: at every step, and so after a crash
\* at any step, the store holds exactly what the committed records up to its
\* checkpoint make, and no record of an open or aborted transaction.
StoreMatchesCheckpoint ==
  caller = "openTask" => db = StateOver(Empty, checkpoint + 1)

\* A restore that returns has applied every committed record below the high
\* watermark it started from, also those whose transaction was resolved while
\* it ran ("all committed records consumed").
RestoreComplete ==
  pc = "returned" => Visible(checkpoint + 1, hw) = {}

\* closeTask's checkpoint covers no committed record the store does not
\* reflect, in its value or in a later write.
CloseCheckpointSound ==
  pc = "closed" =>
    \A k \in Keys :
      \/ db[k] \in {MaxLen + 1, StateOver(Empty, checkpoint + 1)[k]}
      \/ \E o \in Visible(checkpoint + 1, Len(log)) :
           log[o + 1].key = k /\ log[o + 1].val = db[k]

Ended == pc \in {"returned", "closed", "failed"}

\* A call whose stable offset is probed after the last transaction below the
\* high watermark was resolved returns or fails without a caller deadline, also
\* over aborted tails, markers and compacted ranges.
ResolvedTerminates ==
  (pc \in {"offsets", "probe"} /\ OpenPlaces = {}) ~> Ended

\* Every call returns or fails: the poll loop ends without a caller deadline.
Terminates == <>Ended

\* A call with nothing to restore after checkpointOffset leaves the store as it
\* is: the high-watermark lookup of closeTask never changes a value.
LookupLeavesStore ==
  [][caller = "closeTask" => db' = db]_vars
==============================================================================
