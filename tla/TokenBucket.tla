---------------------------- MODULE TokenBucket ----------------------------
(***************************************************************************)
(* A token bucket (internal/core/token_bucket.go) that goroutines take     *)
(* tokens from through the limiter of a context (internal/core/limit.go,   *)
(* Context.Take and Context.GiveBack), the manager goroutine that refills  *)
(* it on each tick, resumes the waiting goroutines and destroys it, and    *)
(* the pool of wait channels that the buckets of the program share.        *)
(*                                                                         *)
(* A tick holds both locks of the bucket and is one step.  A goroutine     *)
(* takes a channel from the pool, lists it and receives from it in three   *)
(* steps.  Buckets that deplete on their own are modelled in Context.      *)
(***************************************************************************)
EXTENDS Integers, Sequences, FiniteSets, SequencesExt, FiniteSetsExt

CONSTANTS
    Takers,     \* goroutines
    Capacity,   \* limit.Value
    Scale,      \* TOKEN_BUCKET_CAPACITY_SCALE
    Increment,  \* fillRate: scaled tokens per tick
    IsTotal,    \* limit.Kind = TotalLimit
    Counts,     \* the amounts taken
    PoolSize,   \* MAX_WAIT_CHAN_COUNT
    MaxTakes    \* bound: calls of Take

ASSUME CountsAssumption == Counts \subseteq 1..Capacity /\ Scale > 0

VARIABLES
    available,          \* scaled
    shouldBeDestroyed,
    destroyed,
    waitList,           \* waitChans and the two lists of counts: [ch, count]
    pool,               \* waitChanPool
    made,               \* channels made so far
    sent,               \* channels that hold a value
    closed,             \* closed channels
    pc, want,           \* of each goroutine: where it is, how much it takes
    takes,              \* calls made so far
    ch,                 \* the channel it waits on, 0 if none
    credit,             \* history: tokens the manager took for goroutines, less theirs
    lost                \* history: a value was not sent, or an entry was listed too late

bucketVars == <<available, shouldBeDestroyed, destroyed>>
chanVars == <<waitList, pool, made, sent, closed>>
historyVars == <<credit, lost>>
vars == <<bucketVars, chanVars, pc, want, takes, ch, historyVars>>

Full == Capacity * Scale

Least(a, b) == IF a <= b THEN a ELSE b

Goto(p, l) == pc' = [pc EXCEPT ![p] = l]

Init ==
    /\ available = Full
    /\ shouldBeDestroyed = FALSE
    /\ destroyed = FALSE
    /\ waitList = <<>>
    /\ pool = <<>>
    /\ made = 0
    /\ sent = {}
    /\ closed = {}
    /\ pc = [p \in Takers |-> "idle"]
    /\ want = [p \in Takers |-> 0]
    /\ takes = 0
    /\ ch = [p \in Takers |-> 0]
    /\ credit = 0
    /\ lost = FALSE

-----------------------------------------------------------------------------
\* limiter.Take: a total limit panics, and takes nothing, when too few tokens are available.
Take(p, count) ==
    /\ pc[p] = "idle"
    /\ takes < MaxTakes
    /\ takes' = takes + 1
    /\ ~(IsTotal /\ available \div Scale < count)
    /\ want' = [want EXCEPT ![p] = count]
    /\ Goto(p, "try")
    /\ UNCHANGED <<bucketVars, chanVars, ch, historyVars>>

\* tryTake: panics if the bucket is destroyed.
TryTake(p) ==
    /\ pc[p] = "try"
    /\ \/ /\ destroyed \/ shouldBeDestroyed
          /\ Goto(p, "idle")
          /\ want' = [want EXCEPT ![p] = 0]
          /\ UNCHANGED available
       \/ /\ ~destroyed /\ ~shouldBeDestroyed
          /\ want[p] * Scale <= available
          /\ available' = available - want[p] * Scale
          /\ Goto(p, "took")
          /\ UNCHANGED want
       \/ /\ ~destroyed /\ ~shouldBeDestroyed
          /\ want[p] * Scale > available
          /\ Goto(p, "wait")
          /\ UNCHANGED <<available, want>>
    /\ UNCHANGED <<shouldBeDestroyed, destroyed, chanVars, takes, ch, historyVars>>

PoolAfterGet == Tail(pool)

\* addWaitChannel: a channel of the pool, or a new one ...
GetChannel(p) ==
    /\ pc[p] = "wait"
    /\ \/ /\ pool # <<>>
          /\ ch' = [ch EXCEPT ![p] = Head(pool)]
          /\ pool' = PoolAfterGet
          /\ UNCHANGED made
       \/ /\ pool = <<>>
          /\ made' = made + 1
          /\ ch' = [ch EXCEPT ![p] = made + 1]
          /\ UNCHANGED pool
    /\ Goto(p, "list")
    /\ UNCHANGED <<bucketVars, waitList, sent, closed, want, takes, historyVars>>

\* ... which is listed, even if the bucket has been destroyed in the meantime.
ListChannel(p) ==
    /\ pc[p] = "list"
    /\ waitList' = Append(waitList, [ch |-> ch[p], count |-> want[p] * Scale])
    /\ lost' = (lost \/ destroyed)
    /\ Goto(p, "receive")
    /\ UNCHANGED <<bucketVars, pool, made, sent, closed, want, takes, ch, credit>>

\* <-waitChan
Receive(p) ==
    /\ pc[p] = "receive"
    /\ ch[p] \in sent \cup closed
    /\ sent' = sent \ {ch[p]}
    /\ credit' = credit - want[p] * Scale
    /\ ch' = [ch EXCEPT ![p] = 0]
    /\ Goto(p, "took")
    /\ UNCHANGED <<bucketVars, waitList, pool, made, closed, want, takes, lost>>

\* tokenBucket.GiveBack
BucketGiveBack(count) == Least(Full, available + count * Scale)

\* Context.GiveBack multiplies the count by the scale before the bucket does.  The bucket
\* panics if it is destroyed.  The tokens of the limits that are not total are not given back.
GiveBack(p) ==
    /\ pc[p] = "took"
    /\ available' = IF IsTotal /\ ~destroyed /\ ~shouldBeDestroyed
                    THEN BucketGiveBack(want[p] * Scale) ELSE available
    /\ want' = [want EXCEPT ![p] = 0]
    /\ Goto(p, "idle")
    /\ UNCHANGED <<shouldBeDestroyed, destroyed, chanVars, takes, ch, historyVars>>

\* limiter.Destroy of the context that created the bucket, or the context found done on a tick.
Destroy ==
    /\ ~destroyed
    /\ ~shouldBeDestroyed
    /\ shouldBeDestroyed' = TRUE
    /\ UNCHANGED <<available, destroyed, chanVars, pc, want, takes, ch, historyVars>>

\* Resumes the goroutines of a list of entries, the last one first: a value is sent
\* unless the channel still holds one, and the channel goes to the pool or is closed.
Resume(entries) ==
    LET chans == Reverse([i \in DOMAIN entries |-> entries[i].ch])
        room == Least(Len(chans), PoolSize - Len(pool))
    IN
    /\ sent' = sent \cup ToSet(chans)
    /\ pool' = pool \o SubSeq(chans, 1, room)
    /\ closed' = closed \cup ToSet(SubSeq(chans, room + 1, Len(chans)))
    /\ lost' = (lost \/ ToSet(chans) \cap sent # {})

Sum(entries) == FoldSeq(LAMBDA e, acc : e.count + acc, 0, entries)

Last_(k) == SubSeq(waitList, Len(waitList) - k + 1, Len(waitList))

\* How many goroutines can be served, in the order last come first served.
Affordable(tokens) == Max({k \in 0..Len(waitList) : Sum(Last_(k)) <= tokens})

Refilled == IF available < Full THEN available + Increment ELSE available


\* The tick that destroys the bucket resumes everyone and leaves the list as it is.
DestroyTick ==
    /\ shouldBeDestroyed
    /\ shouldBeDestroyed' = FALSE
    /\ destroyed' = TRUE
    /\ available' = Refilled
    /\ Resume(Reverse(waitList))
    /\ UNCHANGED <<waitList, credit>>

\* Mutant: the goroutines that have waited longest are resumed in place of those served.
RefillTickWrongEnd ==
    LET tokens == Refilled
        k == Affordable(tokens)
    IN
    /\ ~shouldBeDestroyed
    /\ available' = tokens - Sum(Last_(k))
    /\ credit' = credit + Sum(Last_(k))
    /\ waitList' = SubSeq(waitList, 1, Len(waitList) - k)
    /\ Resume(SubSeq(waitList, 1, k))
    /\ UNCHANGED <<shouldBeDestroyed, destroyed>>

\* A tick of the manager: the goroutines served are taken off the list and resumed.
RefillTick ==
    LET tokens == Refilled
        k == Affordable(tokens)
    IN
    /\ ~shouldBeDestroyed
    /\ available' = tokens - Sum(Last_(k))
    /\ credit' = credit + Sum(Last_(k))
    /\ waitList' = SubSeq(waitList, 1, Len(waitList) - k)
    /\ Resume(Last_(k))
    /\ UNCHANGED <<shouldBeDestroyed, destroyed>>

Tick ==
    /\ ~destroyed
    /\ DestroyTick \/ RefillTick
    /\ UNCHANGED <<made, pc, want, takes, ch>>

Goroutine(p) == TryTake(p) \/ GetChannel(p) \/ ListChannel(p) \/ Receive(p) \/ GiveBack(p)

Next ==
    \/ \E p \in Takers, count \in Counts : Take(p, count)
    \/ \E p \in Takers : Goroutine(p)
    \/ Destroy
    \/ Tick

Spec == Init /\ [][Next]_vars

\* The manager ticks forever and a goroutine that can go on does.
FairSpec == Spec /\ WF_vars(Tick) /\ \A p \in Takers : WF_vars(Goroutine(p))

-----------------------------------------------------------------------------
\* The bucket holds a number of tokens that one last increment can bring above its capacity.
TypeOK ==
    /\ available \in 0..(Full + Increment - 1)
    /\ sent \cup closed \cup ToSet(pool) \subseteq 1..made
    /\ \A p \in Takers : ch[p] \in 0..made
    /\ ~(destroyed /\ shouldBeDestroyed)

\* A channel is in the pool at most once, and then no entry of a live bucket has it: two
\* goroutines are never listed with the same channel.
ChannelsHaveOneHome ==
    /\ IsInjective(pool)
    /\ ~destroyed => IsInjective([i \in DOMAIN waitList |-> waitList[i].ch])
    /\ ~destroyed => ToSet(pool) \cap {e.ch : e \in ToSet(waitList)} = {}

Entries(c) == Cardinality({i \in DOMAIN waitList : waitList[i].ch = c})

Waiting(c) == Cardinality({p \in Takers : ch[p] = c /\ pc[p] = "receive"})

\* For each channel, as many goroutines receive as there are entries and unread values for
\* it: a channel that is reused while its last receiver has not run yet is received from by
\* two goroutines, either of which may be resumed first, and neither is forgotten unless a
\* value could not be sent (then one waits forever).
WaitersAccounted ==
    ~lost /\ ~destroyed => \A c \in (1..made) \ closed :
        Waiting(c) = Entries(c) + (IF c \in sent THEN 1 ELSE 0)

\* The pooled channels, the wait list and the goroutines that receive agree.
ChannelsAccounted == ChannelsHaveOneHome /\ WaitersAccounted


\* token_bucket.go: Take waits "until count tokens are available and then take them": what
\* goroutines have taken never exceeds what the bucket had.  (What they took without waiting
\* was deducted at once; the rest is covered by the credit and by what is available.)
TakenWithinRefill == ~IsTotal /\ ~destroyed => credit + available >= 0

\* A total limit bounds the resources in use, for instance the WebSocket connections.
HeldWithinLimit ==
    ~destroyed => Cardinality({p \in Takers : pc[p] = "took"}) <= Capacity
=============================================================================
