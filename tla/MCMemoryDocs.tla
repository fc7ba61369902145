---------------------------- MODULE MCMemoryDocs ----------------------------
(* The memory documents for TLC. *)
EXTENDS MemoryDocs

CONSTANT user1

\* The stores the seed creates, one of them the public one, and one user's.
MCStoreRows ==
    {[scope |-> "workspace", owner |-> NoUser, seeded |-> TRUE, archived |-> FALSE],
     [scope |-> "conversation", owner |-> NoUser, seeded |-> FALSE, archived |-> FALSE],
     [scope |-> "user", owner |-> user1, seeded |-> FALSE, archived |-> FALSE]}
=============================================================================
