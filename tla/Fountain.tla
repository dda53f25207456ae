------------------------------ MODULE Fountain ------------------------------
(***************************************************************************)
(* One block of the erasure code (internal/fountain): the encoder's        *)
(* symbols arrive in any order, some twice, some never, and the decoder    *)
(* solves the equations gathered so far by elimination over GF(2).         *)
(*                                                                         *)
(* A combination of source symbols is the set of its members and XOR is    *)
(* symmetric difference, so a source symbol is the set holding its index   *)
(* and a symbol's data is the combination it carries.  Repair masks come   *)
(* from a hash that both ends compute; here they are arbitrary.            *)
(***************************************************************************)
EXTENDS Integers, FiniteSets, Sequences
LOCAL INSTANCE FiniteSetsExt
LOCAL INSTANCE SequencesExt

CONSTANTS Sources,         \* source symbols of the block
          MaxIndex   \* bound: the last symbol index sent

ASSUME BlockAssumption == Sources \in Nat \ {0} /\ MaxIndex \in Nat /\ MaxIndex >= Sources - 1

Source == 0 .. Sources - 1
Indexes == 0 .. MaxIndex

VARIABLES repair,   \* repair[i]: members of repair symbol i, never empty
          seen,     \* indexes of the symbols received
          rows,     \* the equations, in order of arrival
          complete,
          solved    \* solved[j]: the value found for source symbol j

blockVars == <<repair, seen, rows, complete, solved>>

Xor(a, b) == (a \ b) \cup (b \ a)

\* Encoder.Symbol: the originals first, combinations after them.
Mask(i) == IF i < Sources THEN {i} ELSE repair[i]

Encoded(i) == [mask |-> Mask(i), data |-> Mask(i)]

BlockInit ==
    /\ repair \in [Sources .. MaxIndex -> (SUBSET Source) \ {{}}]
    /\ seen = {}
    /\ rows = <<>>
    /\ complete = FALSE
    /\ solved = [j \in Source |-> {}]

----------------------------------------------------------------------------
(* Decoder.trySolve. *)

SwapRows(eqs, i, j) == [eqs EXCEPT ![i] = eqs[j], ![j] = eqs[i]]

\* Mutant: the pivot only clears the rows below it.
ClearBelow(eqs, p, col) ==
    [r \in DOMAIN eqs |->
        IF r > p /\ col \in eqs[r].mask
        THEN [mask |-> Xor(eqs[r].mask, eqs[p].mask), data |-> Xor(eqs[r].data, eqs[p].data)]
        ELSE eqs[r]]

\* Row p is the only one left with a member in column col.
Clear(eqs, p, col) ==
    [r \in DOMAIN eqs |->
        IF r # p /\ col \in eqs[r].mask
        THEN [mask |-> Xor(eqs[r].mask, eqs[p].mask), data |-> Xor(eqs[r].data, eqs[p].data)]
        ELSE eqs[r]]

\* One column: the first row from row on that has it becomes its pivot.
Eliminate(st, col) ==
    LET candidates == {r \in DOMAIN st.eqs : r >= st.row /\ col \in st.eqs[r].mask}
    IN  IF candidates = {} THEN st
        ELSE [eqs |-> Clear(SwapRows(st.eqs, st.row, Min(candidates)), st.row, col),
              row |-> st.row + 1,
              pivot |-> [st.pivot EXCEPT ![col] = st.row]]

Solve(eqs) ==
    FoldLeft(Eliminate,
             [eqs |-> eqs, row |-> 1, pivot |-> [j \in Source |-> 0]],
             [c \in 1 .. Sources |-> c - 1])

----------------------------------------------------------------------------
\* Decoder.Add: a symbol seen before is ignored, and so is every symbol of a
\* finished block.
Add(i) ==
    /\ ~complete /\ i \notin seen
    /\ seen' = seen \cup {i}
    /\ rows' = Append(rows, Encoded(i))
    /\ LET result == Solve(rows')
       IN  IF Len(rows') >= Sources /\ \A j \in Source : result.pivot[j] # 0
           THEN complete' = TRUE /\ solved' = [j \in Source |-> result.eqs[result.pivot[j]].data]
           ELSE UNCHANGED <<complete, solved>>
    /\ UNCHANGED repair

BlockNext == \E i \in Indexes : Add(i)

----------------------------------------------------------------------------
(* Properties. *)

\* The combination of a set of symbols.
Combined(S) == {j \in Source : Cardinality({i \in S : j \in Mask(i)}) % 2 = 1}

\* Elimination "succeeds whenever the equations are independent"
\* (fountain/codec.go): whatever the order of arrival the decoder is done
\* exactly when every source symbol is a combination of symbols received, and
\* then the block it returns is the block that was sent.
DecodesWhenDetermined ==
    /\ complete <=> \A j \in Source : \E S \in SUBSET seen : Combined(S) = {j}
    /\ complete => \A j \in Source : solved[j] = {j}

=============================================================================
