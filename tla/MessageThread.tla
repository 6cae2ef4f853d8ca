---------------------------- MODULE MessageThread ----------------------------
(***************************************************************************)
(* The MessageThread collection of                                         *)
(* internal/globals/containers/threadcoll (thread.go, iterator.go,         *)
(* persistence.go): a list that several transactions append to, a distance *)
(* per pending transaction from the end of the list to its first element,  *)
(* and the serialized list that a commit writes.  Every method holds the   *)
(* thread's lock from its first to its last line, so it is one step.  The  *)
(* transactions are those of core/transaction.go: Finish is the point      *)
(* where a transaction starts to commit or roll back, the end callback     *)
(* runs later, and the context lets go of the transaction later still.     *)
(***************************************************************************)
EXTENDS Naturals, Sequences, FiniteSets, SequencesExt

CONSTANTS
    Txs,
    NoTx,          \* the zero ULID, and the transaction of a context that has none
    SegmentSize,   \* MAX_ITERATOR_THREAD_SEGMENT_SIZE
    MaxElements,   \* bound: elements created
    MaxCrashes     \* bound: restarts of the program

ASSUME NoTxAssumption == NoTx \notin Txs

VARIABLES
    elements,   \* sequence of [ulid, txID, commitedTx]
    pending,    \* pendingInclusions: sequence of [tx, dist]
    storage,    \* ULIDs of the elements last serialized, in order
    phase,      \* transaction: "active", "finishing", "called" or "gone"
    outcome,    \* transaction: "none", "commit", "rollback" or "lost"
    iter,       \* an iterator of a context that has no transaction
    owner,      \* history: the transaction that added each element
    late,       \* history: elements added when OnEnd was refused
    exposed,    \* history: transactions pending when another one committed
    shaken,     \* history: transactions pending when another one rolled back
    crashes

vars == <<elements, pending, storage, phase, outcome, iter, owner, late, exposed, shaken, crashes>>

Ids == DOMAIN owner

\* internalElement.isVisibleByTx
isVisibleByTx(e, tx) == e.commitedTx \/ e.txID = NoTx \/ (tx # NoTx /\ e.txID = tx)

VisibleIds(list, tx) == {e.ulid : e \in {x \in ToSet(list) : isVisibleByTx(x, tx)}}

IsPending(tx) == \E i \in DOMAIN pending : pending[i].tx = tx

\* getElementsBefore: up to `count` visible elements older than `end`, newest first.
getElementsBefore(tx, end, count) ==
    LET older == SelectSeq(elements, LAMBDA e : e.ulid < end /\ isVisibleByTx(e, tx))
        from == IF Len(older) > count THEN Len(older) - count + 1 ELSE 1
    IN [k \in 1..(Len(older) - from + 1) |-> older[Len(older) - k + 1].ulid]

NoIterator == [state |-> "none", cursor |-> 0, segment |-> <<>>, yielded |-> <<>>, lasting |-> {}]

Init ==
    /\ elements = <<>>
    /\ pending = <<>>
    /\ storage = <<>>
    /\ phase = [t \in Txs |-> "active"]
    /\ outcome = [t \in Txs |-> "none"]
    /\ iter = NoIterator
    /\ owner = <<>>
    /\ late = {}
    /\ exposed = {}
    /\ shaken = {}
    /\ crashes = 0

-----------------------------------------------------------------------------

\* The initial commitedTx of an element.
InitiallyCommited(tx) == tx = NoTx

\* addNoLock.  The element is appended before OnEnd is called: when the transaction is
\* already finishing OnEnd fails, addNoLock panics, and the element stays in the list.
Add(tx) ==
    LET id == Len(owner) + 1
        first == tx # NoTx /\ ~IsPending(tx)
        moved == [i \in DOMAIN pending |-> [pending[i] EXCEPT !.dist = @ + 1]]
    IN
    /\ Len(owner) < MaxElements
    /\ tx # NoTx => phase[tx] # "gone"
    /\ elements' = Append(elements, [ulid |-> id, txID |-> tx, commitedTx |-> InitiallyCommited(tx)])
    /\ pending' = IF first /\ phase[tx] = "active"
                  THEN Append(moved, [tx |-> tx, dist |-> 0]) ELSE moved
    /\ owner' = Append(owner, tx)
    /\ late' = IF first /\ phase[tx] # "active" THEN late \cup {id} ELSE late
    /\ UNCHANGED <<storage, phase, outcome, iter, exposed, shaken, crashes>>

\* Commit and Rollback claim the transaction.
Finish(tx, how) ==
    /\ phase[tx] = "active"
    /\ phase' = [phase EXCEPT ![tx] = "finishing"]
    /\ outcome' = [outcome EXCEPT ![tx] = how]
    /\ UNCHANGED <<elements, pending, storage, iter, owner, late, exposed, shaken, crashes>>

Forget(tx, list) == SelectSeq(list, LAMBDA p : p.tx # tx)

\* Mutant: the elements of a rolled back transaction stay when they are marked as commited.
WithoutUncommited(tx) == SelectSeq(elements, LAMBDA e : e.txID # tx \/ e.commitedTx)

Without(tx) == SelectSeq(elements, LAMBDA e : e.txID # tx)

\* The distance that a rollback leaves in a pending inclusion: the INDEX of the first
\* element of its transaction found from its former position on.  (Sequences start
\* at 1, the code's indexes at 0.)
Redistanced(p, list) ==
    LET prev == IF Len(list) > p.dist THEN Len(list) - p.dist ELSE 0
        found == {i \in prev..(Len(list) - 1) : list[i + 1].txID = p.tx}
    IN IF found = {} THEN p.dist ELSE CHOOSE i \in found : \A j \in found : i <= j

\* The end callback of a transaction that is rolled back.
RollBack(tx) ==
    LET list == Without(tx) IN
    /\ elements' = list
    /\ pending' = [i \in DOMAIN Forget(tx, pending) |->
                     [Forget(tx, pending)[i] EXCEPT !.dist = Redistanced(Forget(tx, pending)[i], list)]]
    /\ shaken' = shaken \cup {p.tx : p \in ToSet(Forget(tx, pending))}
    /\ UNCHANGED <<storage, exposed>>

\* The first position that a commit marks.
FirstMarked(tx) == Len(elements) - (CHOOSE p \in ToSet(pending) : p.tx = tx).dist

\* Mutant: the list is serialized before the elements are marked, without the others.
SerializedCommited == [i \in DOMAIN SelectSeq(elements, LAMBDA e : e.commitedTx) |->
                         SelectSeq(elements, LAMBDA e : e.commitedTx)[i].ulid]

\* persistThread: the whole list, the elements of pending transactions included.
Serialized == [i \in DOMAIN elements |-> elements[i].ulid]

\* The end callback of a transaction that is committed: every element from the first one
\* of the transaction on is marked, whichever transaction added it.
CommitElements(tx) ==
    /\ elements' = [i \in DOMAIN elements |->
                      [elements[i] EXCEPT !.commitedTx = @ \/ i >= FirstMarked(tx)]]
    /\ pending' = Forget(tx, pending)
    /\ storage' = Serialized
    /\ exposed' = exposed \cup {p.tx : p \in ToSet(Forget(tx, pending))}
                          \cup {elements[i].txID : i \in {k \in DOMAIN elements :
                                    elements[k].txID \notin {tx, NoTx}}}
    /\ UNCHANGED shaken

\* Elements that the iterator's context could see all the time since it was created.
StillVisible(it, list) == [it EXCEPT !.lasting = @ \cap VisibleIds(list, NoTx)]

\* The call of the end callbacks; a transaction without pending inclusions has none here.
EndCallback(tx) ==
    /\ phase[tx] = "finishing"
    /\ phase' = [phase EXCEPT ![tx] = "called"]
    /\ \/ /\ ~IsPending(tx)
          /\ UNCHANGED <<elements, pending, storage, exposed, shaken>>
       \/ /\ IsPending(tx)
          /\ outcome[tx] = "rollback"
          /\ RollBack(tx)
       \/ /\ IsPending(tx)
          /\ outcome[tx] = "commit"
          /\ CommitElements(tx)
    /\ iter' = StillVisible(iter, elements')
    /\ UNCHANGED <<outcome, owner, late, crashes>>

\* ctx.setTx(nil)
LetGo(tx) ==
    /\ phase[tx] = "called"
    /\ phase' = [phase EXCEPT ![tx] = "gone"]
    /\ UNCHANGED <<elements, pending, storage, outcome, iter, owner, late, exposed, shaken, crashes>>

\* loadThread
Loaded == [i \in DOMAIN storage |-> [ulid |-> storage[i], txID |-> NoTx, commitedTx |-> TRUE]]

\* The program stops, with its transactions, and loads the thread again.
Crash ==
    /\ crashes < MaxCrashes
    /\ crashes' = crashes + 1
    /\ elements' = Loaded
    /\ pending' = <<>>
    /\ outcome' = [t \in Txs |-> IF phase[t] \in {"active", "finishing"} THEN "lost" ELSE outcome[t]]
    /\ phase' = [t \in Txs |-> "gone"]
    /\ iter' = NoIterator
    /\ UNCHANGED <<storage, owner, late, exposed, shaken>>

-----------------------------------------------------------------------------
\* Iterator: the cursor starts after every element.
Iterate ==
    /\ iter.state = "none"
    /\ iter' = [state |-> "on", cursor |-> MaxElements + 1, segment |-> <<>>, yielded |-> <<>>,
                lasting |-> VisibleIds(elements, NoTx)]
    /\ UNCHANGED <<elements, pending, storage, phase, outcome, owner, late, exposed, shaken, crashes>>

\* Mutant: the comparison with the cursor is not strict any more and one is taken off.
CursorBefore(segment, cursor) == IF segment = <<>> THEN cursor ELSE segment[Len(segment)] - 1

NextCursor(segment, cursor) == IF segment = <<>> THEN cursor ELSE segment[Len(segment)]

\* HasNext_ with an empty segment: the next segment is read, or the iteration ends.
FetchSegment ==
    LET segment == getElementsBefore(NoTx, iter.cursor, SegmentSize) IN
    /\ iter.state = "on"
    /\ iter.segment = <<>>
    /\ iter' = [iter EXCEPT !.segment = segment,
                            !.cursor = NextCursor(segment, @),
                            !.state = IF segment = <<>> THEN "done" ELSE "on"]
    /\ UNCHANGED <<elements, pending, storage, phase, outcome, owner, late, exposed, shaken, crashes>>

\* Next_
NextElement ==
    /\ iter.segment # <<>>
    /\ Len(iter.yielded) < 2 * MaxElements
    /\ iter' = [iter EXCEPT !.yielded = Append(@, Head(iter.segment)), !.segment = Tail(@)]
    /\ UNCHANGED <<elements, pending, storage, phase, outcome, owner, late, exposed, shaken, crashes>>

Next ==
    \/ \E tx \in Txs \cup {NoTx} : Add(tx)
    \/ \E tx \in Txs, how \in {"commit", "rollback"} : Finish(tx, how)
    \/ \E tx \in Txs : EndCallback(tx) \/ LetGo(tx)
    \/ Crash
    \/ Iterate
    \/ FetchSegment
    \/ NextElement

Spec == Init /\ [][Next]_vars

-----------------------------------------------------------------------------
\* The list is in the order of insertion, and a distance points into the list.
TypeOK ==
    /\ \A i, j \in DOMAIN elements : i < j => elements[i].ulid < elements[j].ulid
    /\ \A i \in DOMAIN elements : elements[i].ulid \in Ids /\ elements[i].txID \in Txs \cup {NoTx}
    /\ \A i \in DOMAIN pending : pending[i].dist \in 0..(Len(elements) - 1)
    /\ \A i, j \in DOMAIN pending : pending[i].tx = pending[j].tx => i = j
    /\ ToSet(storage) \subseteq Ids

\* The transaction's callback has run: Commit or Rollback is past it.
Ended(tx, how) == phase[tx] \in {"called", "gone"} /\ outcome[tx] = how

Added(tx) == {id \in Ids \ late : owner[id] = tx}

InList == {e.ulid : e \in ToSet(elements)}

\* A committed transaction's elements are in the serialized list, and no commit, rollback
\* or restart after it removes them.
CommittedDurable ==
    \A tx \in Txs : Ended(tx, "commit") => Added(tx) \subseteq ToSet(storage)

\* All the elements of a committed transaction are visible to everyone, when no other
\* transaction was rolled back while it was pending.  (A rollback stores an index where a
\* distance is expected, and a later commit may then start too late.)
CommittedVisible ==
    \A tx \in Txs \ shaken :
        Ended(tx, "commit") => Added(tx) \subseteq VisibleIds(elements, NoTx)

\* Nothing that a committed transaction added is lost, in the list or in the serialized list,
\* by the transactions that end after it or by a restart.
CommittedKept == CommittedDurable /\ CommittedVisible


\* A rollback removes all the elements of its transaction from the list, the ones that the
\* commit of another transaction has marked included.
RolledBackRemoved ==
    \A tx \in Txs : Ended(tx, "rollback") /\ crashes = 0 => Added(tx) \cap InList = {}

\* thread.go: commitedTx is "true if the transaction is commited or if not added by a
\* transaciton".
MarkedIsCommitted ==
    \A i \in DOMAIN elements :
        elements[i].commitedTx => elements[i].txID = NoTx \/ outcome[elements[i].txID] = "commit"

\* An iterator goes from newer to older elements and returns none twice, whatever is added
\* and removed between its segments.
IteratorDescends ==
    \A i, j \in DOMAIN iter.yielded : i < j => iter.yielded[i] > iter.yielded[j]

\* An element that was visible from the creation of the iterator to its end is returned:
\* commits and rollbacks between two segments hide nothing.
IteratorComplete == iter.state = "done" => iter.lasting \subseteq ToSet(iter.yielded)

\* An iterator returns what lasts while it runs, in order and once.
IteratorExact == IteratorDescends /\ IteratorComplete
==============================================================================
