------------------------------- MODULE MCRelay -------------------------------
(* A small relay: an ordinary event, and one of another author that        *)
(* deletes by name and by kind; a subscription id that is too long by one  *)
(* character; a filter by kind and one by author.                          *)
EXTENDS Relay, TLC

Note == [name |-> "n", kind |-> 1, author |-> "a", date |-> 2, etags |-> {}, ktags |-> {}]
Deletion == [name |-> "d", kind |-> 5, author |-> "b", date |-> 3, etags |-> {"0"}, ktags |-> {1}]

MCBlank == [name |-> "0", kind |-> 0, author |-> "0", date |-> 0, etags |-> {}, ktags |-> {}]
MCEvents == {Note, Deletion}
MCCut == [id \in SubIds |-> "s"]
MCFilters == {[kinds |-> {1, 5}, authors |-> {}, since |-> 2, until |-> 0],
              [kinds |-> {}, authors |-> {"b"}, since |-> 0, until |-> 3]}

MCSymmetry == Permutations(Fds)
=============================================================================
