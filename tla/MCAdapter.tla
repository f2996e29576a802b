------------------------------ MODULE MCAdapter ------------------------------
(* Small instances of Adapter for TLC. *)
EXTENDS Adapter

-----------------------------------------------------------------------------
\* EFUSEs. Identity and transmit power make an adapter acceptable; the others
\* say what amplifiers it has and of which types.
All(b) == [w \in Words |-> <<b, b>>]
Identity == [section |-> 0, words |-> 0 :> <<41, 129>>]
Power == <<[section |-> 2, words |-> All(40)],
           [section |-> 3, words |-> (0 :> <<41, 42>> @@ 1 :> <<43, 255>>)]>>

\* External amplifiers for 2.4 GHz, of types 5 and 1; for both bands; none.
Amp2G == [section |-> 23, words |-> (2 :> <<48, 153>>)]
AmpBoth == [section |-> 23,
            words |-> (2 :> <<51, 153>> @@ 3 :> <<255, 170>>)]
AmpNone == [section |-> 23, words |-> (2 :> <<0, 0>>)]
RfeOption == [section |-> 25, words |-> (1 :> <<132, 1>>)]
Outside == [section |-> 70, words |-> (0 :> <<1, 1>>)]

MCEfuses == {<<>>, <<Identity>>,
             <<Identity>> \o Power \o <<Amp2G>>,
             Power \o <<Amp2G, AmpBoth, Identity>>,
             <<Identity>> \o Power \o <<AmpBoth, AmpNone>>,
             <<AmpNone, Outside, Identity>> \o Power,
             <<Identity>> \o Power \o <<AmpNone, Outside>>}

MCBoots == {[eeprom |-> FALSE, fail |-> FALSE, hidden |-> FALSE],
            [eeprom |-> FALSE, fail |-> TRUE, hidden |-> TRUE],
            [eeprom |-> FALSE, fail |-> TRUE, hidden |-> FALSE]}

\* The memory of the map: unfit, or fit by chance.
MCMaps == {NoWord, [p \in ({2} \X Words) \cup ({3} \X {0, 1}) |-> <<7, 7>>]}

-----------------------------------------------------------------------------
\* Tables with a plain write, a chain of two arms and an else, and a second
\* chain right after it.
Needs(ks, t) == [needs |-> ks, type |-> [k \in Kinds |-> t]]
Chain(r) == [arms |-> << <<Needs({}, 0), <<<<r, 1>>>> >>,
                         <<Needs({1}, 5), <<<<r, 2>>>> >> >>,
             other |-> <<<<r, 3>>>>]
Chain2(r) == [arms |-> << <<Needs({1, 2}, 1), <<<<r, 4>>>> >>,
                          <<Needs({1}, 5), <<<<r, 5>>, <<r, 6>>>> >>,
                          <<Needs({3, 4}, 0), <<<<r, 7>>>> >> >>,
              other |-> <<<<r, 8>>>>]
Plain(r) == [arms |-> <<>>, other |-> <<<<r, 0>>>>]

MCTables == [i \in 1..5 |->
  IF i = 1 THEN <<Plain(i), Chain2(i), Plain(i)>>
  ELSE IF i = 3 THEN <<Chain(i), Chain2(i)>> ELSE <<Plain(i)>>]

MCBlocks == <<4, 2, 1>>

-----------------------------------------------------------------------------
\* Transfers: one or two units, all there or cut.
Unit(kind, drv, shift, len) ==
  [kind |-> kind, drv |-> drv, shift |-> shift, len |-> len]
MCUnits == {Unit("video", 32, 2, 935), Unit("video", 0, 0, 29),
            Unit("fragment", 32, 0, 120), Unit("video", 0, 0, 28),
            Unit("report", 0, 0, 13), Unit("link", 32, 0, 400),
            Unit("damaged", 32, 0, 301)}

Holds(units) == Places(units)[Len(units)] + Whole(units[Len(units)])
MCTransfers ==
  UNION {{[units |-> us, size |-> Holds(us)],
          [units |-> us, size |-> Holds(us) - 1]} :
           us \in UNION {[1..n -> MCUnits] : n \in 1..2}}

=============================================================================
