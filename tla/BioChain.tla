------------------------------ MODULE BioChain ------------------------------
(***************************************************************************)
(* Reference counting and chains of BIOs (include/CCryptoBoringSSL_bio.h,  *)
(* "Allocation and freeing" and "Managing chains of BIOs").               *)
(*                                                                         *)
(* A BIO carries a reference count.  Threads hold references (handles);   *)
(* a BIO whose next_bio points at another BIO holds the chain's reference *)
(* to it.  BIO_free decrements the count and, when it drops to zero, runs  *)
(* the destroy callback, frees the BIO and repeats for the next BIO in the *)
(* chain.  The count is the only state the library makes thread-safe, so   *)
(* several threads may free BIOs of one chain at the same time; BIO_free   *)
(* is modelled as a loop of steps a thread takes one at a time, so other   *)
(* threads interleave between the links it releases.                       *)
(*                                                                         *)
(* A slot of Bios that is "free" is memory BIO_new may hand out again, so  *)
(* a freed BIO's address can be reused by a later allocation.             *)
(***************************************************************************)
EXTENDS Naturals, FiniteSets, FiniteSetsExt

CONSTANTS
  Bios,     \* memory slots a BIO can be allocated in
  Threads,  \* threads calling the BIO API
  NoBio,    \* NULL
  MaxRefs   \* bound on a BIO's reference count (model bound on BIO_up_ref)

ASSUME NoBio \notin Bios
ASSUME MaxRefs \in Nat \ {0}

VARIABLES
  status,      \* status[b]: "live" once BIO_new returned it, "free" after
  references,  \* references[b]: the BIO's reference count
  next_bio,    \* next_bio[b]: the next BIO in the chain, or NoBio
  held,        \* held[t][b]: references thread t owns to b
  pc,          \* where thread t is in BIO_free: "idle", "destroy" or "next"
  cur          \* the BIO thread t's BIO_free loop is at

vars == <<status, references, next_bio, held, pc, cur>>

(***************************************************************************)
(* Chains.  Following next_bio from a BIO visits at most Cardinality(Bios) *)
(* BIOs; on an acyclic chain (see NoCycle) it ends at NoBio.              *)
(***************************************************************************)
RECURSIVE ChainFromN(_, _)
ChainFromN(b, n) ==
  IF b = NoBio \/ n = 0 THEN {} ELSE {b} \cup ChainFromN(next_bio[b], n - 1)

\* The BIOs of the chain that starts at b, b included.
ChainFrom(b) == ChainFromN(b, Cardinality(Bios))

\* The last BIO of the chain that starts at b: BIO_push walks to it.
LastInChain(b) == CHOOSE l \in ChainFrom(b) : next_bio[l] = NoBio

\* Mutant: the zero test compares the value read before the decrement with
\* one too many (off by one).
DecAndTestOffByOne(t, b) ==
  /\ references' = [references EXCEPT ![b] = @ - 1]
  /\ IF references[b] = 2
       THEN pc' = [pc EXCEPT ![t] = "destroy"] /\ cur' = [cur EXCEPT ![t] = b]
       ELSE pc' = [pc EXCEPT ![t] = "idle"]    /\ cur' = [cur EXCEPT ![t] = NoBio]

(***************************************************************************)
(* The atomic decrement at the top of each iteration of BIO_free's loop:  *)
(* the thread gives up one reference to b; if that was the last one it    *)
(* goes on to destroy b, otherwise BIO_free returns.                       *)
(***************************************************************************)
DecAndTest(t, b) ==
  /\ references' = [references EXCEPT ![b] = @ - 1]
  /\ IF references[b] = 1
       THEN pc' = [pc EXCEPT ![t] = "destroy"] /\ cur' = [cur EXCEPT ![t] = b]
       ELSE pc' = [pc EXCEPT ![t] = "idle"]    /\ cur' = [cur EXCEPT ![t] = NoBio]

Idle(t) == pc[t] = "idle"

Holds(t, b) == held[t][b] >= 1

Give(t, b) == held' = [held EXCEPT ![t][b] = @ + 1]

Take(t, b) == held' = [held EXCEPT ![t][b] = @ - 1]

(***************************************************************************)
(* BIO_new: a fresh BIO in a free slot, reference count one, owned by the *)
(* caller, not in any chain.                                               *)
(***************************************************************************)
BIO_new(t, b) ==
  /\ Idle(t)
  /\ status[b] = "free"
  /\ status' = [status EXCEPT ![b] = "live"]
  /\ references' = [references EXCEPT ![b] = 1]
  /\ next_bio' = [next_bio EXCEPT ![b] = NoBio]
  /\ Give(t, b)
  /\ UNCHANGED <<pc, cur>>

\* BIO_up_ref: one more reference, owned by the caller.
BIO_up_ref(t, b) ==
  /\ Idle(t)
  /\ Holds(t, b)
  /\ references[b] < MaxRefs
  /\ references' = [references EXCEPT ![b] = @ + 1]
  /\ Give(t, b)
  /\ UNCHANGED <<status, next_bio, pc, cur>>

\* Mutant: BIO_free called on a handle the caller does not own (a double
\* free by the caller).
BIO_freeUnowned(t, b) ==
  /\ Idle(t)
  /\ status[b] = "live"
  /\ Take(t, b)
  /\ DecAndTest(t, b)
  /\ UNCHANGED <<status, next_bio>>

\* BIO_free (and BIO_vfree, BIO_free_all): the caller's reference is the
\* first one released.
BIO_free(t, b) ==
  /\ Idle(t)
  /\ Holds(t, b)
  /\ Take(t, b)
  /\ DecAndTest(t, b)
  /\ UNCHANGED <<status, next_bio>>

\* Mutant: BIO_free returns after destroying the BIO whose count reached
\* zero, without going on to the next BIO in the chain.
FreeDestroyStopsAtHead(t) ==
  LET b == cur[t] IN
  /\ pc[t] = "destroy"
  /\ status' = [status EXCEPT ![b] = "free"]
  /\ next_bio' = [next_bio EXCEPT ![b] = NoBio]
  /\ cur' = [cur EXCEPT ![t] = NoBio]
  /\ pc' = [pc EXCEPT ![t] = "idle"]
  /\ UNCHANGED <<references, held>>

\* The count of cur[t] reached zero: run the destroy callback, detach and
\* free the BIO, and carry the chain's reference to the next BIO on.
FreeDestroy(t) ==
  LET b == cur[t] IN
  /\ pc[t] = "destroy"
  /\ status' = [status EXCEPT ![b] = "free"]
  /\ next_bio' = [next_bio EXCEPT ![b] = NoBio]
  /\ cur' = [cur EXCEPT ![t] = next_bio[b]]
  /\ pc' = [pc EXCEPT ![t] = IF next_bio[b] = NoBio THEN "idle" ELSE "next"]
  /\ UNCHANGED <<references, held>>

\* "It then repeats that for the next BIO in the chain."
FreeNext(t) ==
  /\ pc[t] = "next"
  /\ DecAndTest(t, cur[t])
  /\ UNCHANGED <<status, next_bio, held>>

\* Mutant: BIO_push takes a new reference to appended_bio on top of the
\* caller's, which the caller has handed over.
BIO_pushUpRefs(t, bio, appended) ==
  LET last == LastInChain(bio) IN
  /\ Idle(t)
  /\ Holds(t, bio)
  /\ held[t][appended] >= IF appended = bio THEN 2 ELSE 1
  /\ \E l \in ChainFrom(bio) : next_bio[l] = NoBio
  /\ next_bio' = [next_bio EXCEPT ![last] = appended]
  /\ references' = [references EXCEPT ![appended] = @ + 1]
  /\ Take(t, appended)
  /\ UNCHANGED <<status, pc, cur>>

(***************************************************************************)
(* BIO_push(bio, appended_bio): walk to the last BIO of bio's chain, link  *)
(* appended_bio after it, and take over the caller's reference to         *)
(* appended_bio.  Nothing is checked: if bio's chain has no last BIO (it  *)
(* is a cycle) the walk never returns.  Pushing a BIO onto a chain that   *)
(* already reaches it is a documented caller error, so the model's       *)
(* callers never do (NoCycle, in Next).                                   *)
(***************************************************************************)
BIO_push(t, bio, appended) ==
  LET last == LastInChain(bio) IN
  /\ Idle(t)
  /\ Holds(t, bio)
  /\ held[t][appended] >= IF appended = bio THEN 2 ELSE 1
  /\ \E l \in ChainFrom(bio) : next_bio[l] = NoBio
  /\ next_bio' = [next_bio EXCEPT ![last] = appended]
  /\ Take(t, appended)
  /\ UNCHANGED <<status, references, pc, cur>>

\* A push that does not close a cycle: appended_bio's chain does not reach
\* the last BIO of bio's chain.
NoCycle(bio, appended) ==
  \A l \in ChainFrom(bio) : next_bio[l] = NoBio => l \notin ChainFrom(appended)

\* Mutant: BIO_pop returns the next BIO but leaves bio linked to it, so the
\* chain and the caller both own the one reference.
BIO_popKeepsLink(t, bio) ==
  LET n == next_bio[bio] IN
  /\ Idle(t)
  /\ Holds(t, bio)
  /\ n # NoBio
  /\ Give(t, n)
  /\ UNCHANGED <<status, references, next_bio, pc, cur>>

\* BIO_pop(bio): detach bio from the rest of its chain; the caller now owns
\* the reference that bio's link held to the returned next BIO.
BIO_pop(t, bio) ==
  LET n == next_bio[bio] IN
  /\ Idle(t)
  /\ Holds(t, bio)
  /\ n # NoBio
  /\ next_bio' = [next_bio EXCEPT ![bio] = NoBio]
  /\ Give(t, n)
  /\ UNCHANGED <<status, references, pc, cur>>

\* A caller passes one of its references to another thread (environment).
HandOff(t, u, b) ==
  /\ Idle(t)
  /\ t # u
  /\ Holds(t, b)
  /\ held' = [held EXCEPT ![t][b] = @ - 1, ![u][b] = @ + 1]
  /\ UNCHANGED <<status, references, next_bio, pc, cur>>

Init ==
  /\ status = [b \in Bios |-> "free"]
  /\ references = [b \in Bios |-> 0]
  /\ next_bio = [b \in Bios |-> NoBio]
  /\ held = [t \in Threads |-> [b \in Bios |-> 0]]
  /\ pc = [t \in Threads |-> "idle"]
  /\ cur = [t \in Threads |-> NoBio]

Next ==
  \/ \E t \in Threads, b \in Bios :
       \/ BIO_new(t, b)
       \/ BIO_up_ref(t, b)
       \/ BIO_free(t, b)
       \/ BIO_pop(t, b)
       \/ \E a \in Bios : NoCycle(b, a) /\ BIO_push(t, b, a)
       \/ \E u \in Threads : HandOff(t, u, b)
  \/ \E t \in Threads : FreeDestroy(t) \/ FreeNext(t)


\* A thread inside BIO_free runs its loop to the end: nothing in it blocks.
Fairness == \A t \in Threads : WF_vars(FreeDestroy(t)) /\ WF_vars(FreeNext(t))

Spec == Init /\ [][Next]_vars /\ Fairness

-----------------------------------------------------------------------------
TypeOK ==
  /\ status \in [Bios -> {"live", "free"}]
  /\ references \in [Bios -> 0..MaxRefs]
  /\ next_bio \in [Bios -> Bios \cup {NoBio}]
  /\ held \in [Threads -> [Bios -> 0..MaxRefs]]
  /\ pc \in [Threads -> {"idle", "destroy", "next"}]
  /\ cur \in [Threads -> Bios \cup {NoBio}]

\* The live BIOs whose next_bio is b: each holds the chain's reference.
Linkers(b) == {a \in Bios : status[a] = "live" /\ next_bio[a] = b}

\* Threads between two iterations of BIO_free, about to release b.
Releasing(b) == {t \in Threads : pc[t] = "next" /\ cur[t] = b}

(***************************************************************************)
(* The reference count of every live BIO equals the number of owners the  *)
(* header's ownership rules give it: references held by threads, one per  *)
(* chain link into it (BIO_push takes the caller's reference, BIO_pop      *)
(* hands it back) and one per BIO_free loop about to release it.  A count  *)
(* above this leaks the BIO, one below it frees a BIO still in use.        *)
(***************************************************************************)
ReferenceAccounting ==
  \A b \in Bios : status[b] = "live" =>
    references[b] =
      MapThenSumSet(LAMBDA t : held[t][b], Threads)
        + Cardinality(Linkers(b)) + Cardinality(Releasing(b))

(***************************************************************************)
(* No use after free: every handle a thread holds, every next_bio of a    *)
(* live BIO and every BIO a BIO_free loop is about to release is live.     *)
(***************************************************************************)
NoDanglingReference ==
  \A b \in Bios :
    (\/ \E t \in Threads : Holds(t, b)
     \/ Linkers(b) # {}
     \/ Releasing(b) # {}) => status[b] = "live"

\* BIOs reachable along next_bio from a handle some thread owns.
HandleReach == UNION {ChainFrom(b) : b \in {b \in Bios : \E t \in Threads : Holds(t, b)}}

\* ... or from the BIO a BIO_free loop is about to release.
Reachable ==
  HandleReach \cup UNION {ChainFrom(cur[t]) : t \in {t \in Threads : pc[t] = "next"}}

(***************************************************************************)
(* No leak: a live BIO that no thread can reach any more (its last handle  *)
(* was freed, or the chain holding it was) is eventually destroyed and    *)
(* freed, by the BIO_free loop walking the chain.                          *)
(***************************************************************************)
UnreachableEventuallyFreed ==
  \A b \in Bios : (status[b] = "live" /\ b \notin Reachable) ~> status[b] = "free"

=============================================================================
