---------------------------- MODULE BoardTables ----------------------------
(***************************************************************************)
(* The register tables of HalModule. A table is a flat list of pairs. Some *)
(* are writes; the others make up chains of conditions over the board, of  *)
(* which one arm is to be written:                                         *)
(*   if when c1 test w.. (elseif) when c2 test w.. else w.. endif          *)
(* The six readers of tables (MAC, PHY, its MP variant, AGC and the two    *)
(* radios) are copies of one loop over is_matched, is_skipped and pre_v1.  *)
(*                                                                         *)
(* Pure: EfuseReader gives the board. A write is <<register, value>>.      *)
(***************************************************************************)
EXTENDS Integers, Sequences, SequencesExt

\* The conditions of the tables: [needs, type]. needs is the amplifiers, as
\* numbers 1..4 for GLNA, GPA, ALNA and APA; type their types. All ask for
\* USB or do not care, and for no cut.
Kinds == 1..4
Conditions == [needs : SUBSET Kinds, type : [Kinds -> Nat]]
Puts == Seq(Nat \X Nat)

\* GetBoardType, as check_positive permutes it.
BoardHas(p) == {k \in Kinds : <<p.lna2g, p.pa2g, p.lna5g, p.pa5g>>[k]}

\* Wrong variant: the types are compared whatever the condition asks for.
CheckAllTypes(p, c) ==
  c.needs \subseteq BoardHas(p) /\ \A k \in Kinds : c.type[k] = p.type[k]

\* check_positive: the types count where the condition names the amplifier.
CheckPositive(p, c) ==
  /\ c.needs \subseteq BoardHas(p)
  /\ \A k \in c.needs : c.type[k] = p.type[k]

Start == [matched |-> TRUE, skipped |-> FALSE, pre |-> <<>>, written |-> <<>>]

\* Wrong variant: a later arm is tested although an earlier one was taken.
EntryForgetsSkip(p, s, e) ==
  CASE e.op = "when"  -> [s EXCEPT !.pre = e.cond]
    [] e.op = "test"  -> [s EXCEPT !.matched = CheckPositive(p, s.pre),
                                   !.skipped = CheckPositive(p, s.pre)]
    [] e.op = "else"  -> [s EXCEPT !.matched = ~s.skipped]
    [] e.op = "endif" -> [s EXCEPT !.matched = TRUE, !.skipped = FALSE]
    [] OTHER -> IF s.matched THEN [s EXCEPT !.written = Append(@, e.put)]
                ELSE s

\* One round of the loop of odm_read_and_config_mp_8812a_*.
Entry(p, s, e) ==
  CASE e.op = "when"  -> [s EXCEPT !.pre = e.cond]
    [] e.op = "test" /\ ~s.skipped ->
         [s EXCEPT !.matched = CheckPositive(p, s.pre),
                   !.skipped = CheckPositive(p, s.pre)]
    [] e.op = "test" /\ s.skipped -> [s EXCEPT !.matched = FALSE]
    [] e.op = "else"  -> [s EXCEPT !.matched = ~s.skipped]
    [] e.op = "endif" -> [s EXCEPT !.matched = TRUE, !.skipped = FALSE]
    [] OTHER -> IF s.matched THEN [s EXCEPT !.written = Append(@, e.put)]
                ELSE s

\* The loop over a table, from state s.
Loop(p, s, table) ==
  LET after[i \in 0..Len(table)] ==
        IF i = 0 THEN s ELSE Entry(p, after[i - 1], table[i])
  IN after[Len(table)]

\* What the reader of a table writes to the adapter of board p.
ReadAndConfig(p, table) == Loop(p, Start, table).written

-----------------------------------------------------------------------------
\* What a table means. It is a sequence of items: a chain of arms, each
\* <<condition, writes>>, and the writes of its else. A plain write is a
\* chain of no arms.
Items == [arms : Seq(Conditions \X Puts), other : Puts]

Writes(ws) == [i \in DOMAIN ws |-> [op |-> "write", put |-> ws[i]]]

Arm(arm) ==
  <<[op |-> "when", cond |-> arm[1]], [op |-> "test"]>> \o Writes(arm[2])

Flat(item) ==
  IF item.arms = <<>> THEN Writes(item.other)
  ELSE FlattenSeq([i \in DOMAIN item.arms |-> Arm(item.arms[i])])
         \o <<[op |-> "else"]>> \o Writes(item.other) \o <<[op |-> "endif"]>>

FlatTable(items) == FlattenSeq([i \in DOMAIN items |-> Flat(items[i])])

\* The writes of the first arm the board fulfils, of the else if of none.
\* What the amplifiers are that a condition asks for is for the EFUSE to
\* say: a board without one is never taken for a board with it.
Meant(has, type, item) ==
  LET fulfils(c) == \A k \in c.needs : k \in has /\ c.type[k] = type[k]
      good == {i \in DOMAIN item.arms : fulfils(item.arms[i][1])}
  IN IF good = {} THEN item.other
     ELSE item.arms[CHOOSE i \in good : \A j \in good : i <= j][2]

MeantTable(has, type, items) ==
  FlattenSeq([i \in DOMAIN items |-> Meant(has, type, items[i])])

=============================================================================
