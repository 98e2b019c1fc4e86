--------------------------- MODULE MCSelectorTable ---------------------------
(* Contracts of up to five entry points over method ids of two digits, some  *)
(* of them with a trailing zero or all zero, and every kind of call.         *)
EXTENDS SelectorTable

Single(id, j) == [ids |-> <<id>>, args |-> ((id + j) \div 2) % 3, payable |-> (id + j) % 3 = 0]
Ids == {0, 1, 4, 5, 7, 8, 10, 11, 13}
Simple == {[i \in 1 .. Cardinality(S) |-> Single(SetToSeq(S)[i], j)] :
             S \in {T \in SUBSET Ids : Cardinality(T) \in {0, 1, 2, 5}}, j \in 0 .. 1}
WithKeywords == {<<[ids |-> <<a, b, c>>, args |-> 1, payable |-> p], Single(d, 0), Single(14, 1)>> :
                   a \in {0, 5}, b \in {1, 4, 8}, c \in {3, 12}, d \in {2, 11}, p \in BOOLEAN}
MCContracts == Simple \union WithKeywords
MCCalls == {c \in [id : 0 .. 15, size : {0, 1, 2, 5, 6, 10, 14}, value : {0, 1}] :
              c.size < 2 => c.id % (4^(2 - c.size)) = 0}
=============================================================================
