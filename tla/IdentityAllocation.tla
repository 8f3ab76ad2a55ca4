------------------------- MODULE IdentityAllocation -------------------------
(***************************************************************************)
(* The identities the agent runtime gives to what it stores: prefix-N,     *)
(* with N from one counter that starts at zero in every process            *)
(* (Runtime::allocate_id), while the tables that hold them outlive the     *)
(* process and require each to be new.                                     *)
(*                                                                         *)
(* The store never fails here: the only refusal is the one of an identity  *)
(* that is taken.  An identity is a pair <<prefix, N>>.  Turns of the      *)
(* provider carry an identity of the provider's, which is always new; what *)
(* the provider says after the user's message is left out.  Rows are not   *)
(* removed (a purge would free their identities).                          *)
(***************************************************************************)
EXTENDS Integers, FiniteSets

CONSTANTS
  MaxId,      \* bound: the largest counter value
  MaxRestarts \* bound: restarts of the process

ASSUME AllocationAssumption == MaxId \in Nat /\ MaxRestarts \in Nat

VARIABLES
  nextId,   \* Runtime.next_id
  stored,   \* the identities in the tables
  process,  \* the process: "up" or "down"
  atStart,  \* history: the identities stored when the process started
  refused,  \* history: operations this process has refused
  restarts

allocation == <<nextId, stored, process, atStart, refused, restarts>>

Prefixes == {"project", "session", "fork", "turn", "item",
            "error"}
Identities == Prefixes \X (1..MaxId)

AllocationInit ==
  /\ nextId = 0
  /\ stored = {} /\ atStart = {}
  /\ process = "up"
  /\ refused = 0
  /\ restarts = 0

(* The n-th identity allocated from here.                                  *)
Allocated(prefix, n) == <<prefix, nextId + n>>

(* An operation takes these identities and stores them all, or none: the   *)
(* numbers are used up either way.  Faulty variant: a refused operation    *)
(* gives its numbers back, or an operation uses up one number whatever it  *)
(* took.                                                                   *)
AllocateReturning(n) == nextId' = IF refused' > refused THEN nextId ELSE nextId + n
AllocateOne(n) == nextId' = nextId + 1
Allocate(n) == nextId' = nextId + n
Available(n) == process = "up" /\ nextId + n <= MaxId

Insert(identities) ==
  \/ /\ identities \cap stored = {}
     /\ stored' = stored \cup identities
     /\ UNCHANGED refused
  \/ /\ identities \cap stored # {}
     /\ refused' = refused + 1
     /\ UNCHANGED stored

OpenProject ==
  /\ Available(1)
  /\ Insert({Allocated("project", 1)})
  /\ Allocate(1)
  /\ UNCHANGED <<process, atStart, restarts>>

StartSession ==
  /\ Available(1)
  /\ Insert({Allocated("session", 1)})
  /\ Allocate(1)
  /\ UNCHANGED <<process, atStart, restarts>>

(* session/fork: the Session, and the import, of whose identity that of    *)
(* the session.imported event is derived.                                  *)
ForkSession ==
  /\ Available(2) /\ \E id \in stored : id[1] = "session"
  /\ Insert({Allocated("session", 1), Allocated("fork", 2)})
  /\ Allocate(2)
  /\ UNCHANGED <<process, atStart, restarts>>

(* Terminals, watches, indices and copies: identities that are not stored. *)
Ephemeral ==
  /\ Available(1)
  /\ UNCHANGED <<stored, process, atStart, refused, restarts>>
  /\ Allocate(1)

(* A preview Turn: the user's Item, the Turn and the agent's Item are      *)
(* allocated in this order and stored in one transaction.                  *)
PreviewTurn ==
  /\ Available(3) /\ \E id \in stored : id[1] = "session"
  /\ Insert({Allocated("item", 1), Allocated("turn", 2), Allocated("item", 3)})
  /\ Allocate(3)
  /\ UNCHANGED <<process, atStart, restarts>>

(* A Turn of the provider: it is stored with the provider's identity, then *)
(* the user's Item.  If that is taken the Turn is failed with an error     *)
(* Item, and if that is taken, too, the runtime stops with the Turn open.  *)
ProviderTurn ==
  /\ Available(2) /\ \E id \in stored : id[1] = "session"
  /\ LET user == Allocated("item", 1)
         error == Allocated("error", 2)
     IN  \/ /\ user \notin stored
            /\ stored' = stored \cup {user}
            /\ UNCHANGED <<process, refused>>
            /\ Allocate(1)
         \/ /\ user \in stored /\ error \notin stored
            /\ refused' = refused + 1
            /\ stored' = stored \cup {error}
            /\ Allocate(2)
            /\ UNCHANGED process
         \/ /\ user \in stored /\ error \in stored
            /\ refused' = refused + 1
            /\ process' = "down"
            /\ Allocate(2)
            /\ UNCHANGED stored
  /\ UNCHANGED <<atStart, restarts>>

(* Runtime::new: the counter starts again, the tables do not.              *)
NewProcess ==
  /\ restarts < MaxRestarts
  /\ restarts' = restarts + 1
  /\ nextId' = 0
  /\ process' = "up"
  /\ atStart' = stored
  /\ refused' = 0
  /\ UNCHANGED stored

AllocationNext ==
  \/ OpenProject
  \/ StartSession
  \/ ForkSession
  \/ Ephemeral
  \/ PreviewTurn
  \/ ProviderTurn
  \/ NewProcess

AllocationSpec == AllocationInit /\ [][AllocationNext]_allocation

-----------------------------------------------------------------------------
(* Every variable has its type.                                            *)
AllocationTypeOK ==
  /\ nextId \in 0..MaxId
  /\ stored \subseteq Identities /\ atStart \subseteq Identities
  /\ process \in {"up", "down"}
  /\ refused \in Nat
  /\ restarts \in 0..MaxRestarts

(* A refusal uses its numbers up, so a client that repeats an operation    *)
(* gets past the identities of former processes: a process refuses no more *)
(* operations than there were identities when it started.                  *)
RefusalsAreBounded == refused <= Cardinality(atStart)

(* Only an earlier process can stand in the way: an identity beyond every  *)
(* one stored at the start of the process is never refused.                *)
OnlyThePastRefuses ==
  [][refused' > refused => \E id \in atStart : id[2] > nextId]_allocation
=============================================================================
