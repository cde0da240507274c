-------------------------- MODULE MCOperationLocks --------------------------
(* A small instance of OperationLocks: two deliveries of one handler, the     *)
(* entry with a lock of its own and one of the handler's, an operation with   *)
(* a cleanup, one without, and a poll that yields to a lock.                  *)
EXTENDS OperationLocks, Sequences

MCLocks      == {"a", "b", "c"}
MCOperations == {"restore", "write", "poll"}
MCHandlers   == {"input1", "input2", "entry"}
MCLocksOf ==
    [restore |-> {"a", "c"}, write |-> {"b"}, poll |-> {"c"},
     input1 |-> {"a", "b"}, input2 |-> {"a", "b"}, entry |-> {"b", "c"}]
MCWithCleanup == {"restore"}
MCSuspends == [restore |-> {}, write |-> {}, poll |-> {"a"}]

-----------------------------------------------------------------------------
(* The loop of #releaseLocks as it is written, with the set `blocked', over  *)
(* every queue of distinct handlers and every set of held locks: what it     *)
(* grants is what GrantedBy says.                                            *)
RECURSIVE Scan(_, _, _)
Scan(q, held, blocked) ==
    IF q = <<>> THEN {}
    ELSE LET locks == LocksOf[Head(q)] IN
         IF locks \cap (held \cup blocked) # {}
         THEN Scan(Tail(q), held, blocked \cup locks)
         ELSE {Head(q)} \cup Scan(Tail(q), held \cup locks, blocked)

Queues == {q \in UNION {[1 .. n -> MCHandlers] : n \in 0 .. 3} :
              \A i, j \in DOMAIN q : i # j => q[i] # q[j]}

ASSUME ScanIsGrantedBy ==
    \A q \in Queues, held \in SUBSET MCLocks :
        Scan(q, held, {}) =
            {q[i] : i \in {k \in DOMAIN q :
                        /\ MCLocksOf[q[k]] \cap held = {}
                        /\ \A j \in 1 .. k - 1 : MCLocksOf[q[j]] \cap MCLocksOf[q[k]] = {}}}
=============================================================================
