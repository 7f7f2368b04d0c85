------------------------------ MODULE MCStores ------------------------------
(* TLC instance of the two stores.  The server uses one of them, which the     *)
(* configuration chooses at start-up (NewAuthStateStore); the variables of the *)
(* other one stay as they are.                                                 *)
EXTENDS RedisStore

VARIABLES
    kind,               \* the store in use
    memNow, memReply,   \* now and reply of the memory store
    entries, counters   \* its maps

memoryVars == <<memNow, memReply, entries, counters>>

Memory == INSTANCE MemoryStore WITH now <- memNow, reply <- memReply

StoresInit ==
    /\ kind \in {"redis", "memory"}
    /\ Init
    /\ Memory!Init

StoresNext ==
    \/ kind = "redis" /\ Next /\ UNCHANGED <<kind, memoryVars>>
    \/ kind = "memory" /\ Memory!Next /\ UNCHANGED <<kind, vars>>

StoresSpec == StoresInit /\ [][StoresNext]_<<kind, vars, memoryVars>>

\* MemoryStore keeps the promises of the Store interface: entries that have run
\* out but are still in a map never count, and dropping them is not observable.
MemoryImplementsAuthState == Memory!ImplementsAuthState

=============================================================================
