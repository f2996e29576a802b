---------------------------- MODULE RadioProofs ----------------------------
(* The radio is left as asked, for every set of channels and widths the     *)
(* program lets through, every adapter and every history of tunes and       *)
(* failing transfers. First what a sequence of register writes leads to,    *)
(* then the programs one by one, then a step of one, then what begins and   *)
(* ends a call.                                                             *)
EXTENDS RadioInvariant, Induction, SequenceTheorems, TLAPS

\* The value of a field after a sequence is that of the last step that writes
\* it.
LEMMA LastDecides ==
  ASSUME NEW S, NEW s \in Seq(S), NEW f, NEW x, NEW i \in DOMAIN s,
         Touches(s[i], f), \A j \in DOMAIN s : j > i => ~Touches(s[j], f)
  PROVE  After(s, f, x) = AfterStep(s[i], f, x)
<1>1. DOMAIN s = 1..Len(s) /\ Len(s) \in Nat
  BY LenProperties
<1>2. LastTouch(s, f) = i
  <2> DEFINE P(k) == Touches(s[k], f)
                       /\ \A j \in DOMAIN s : j > k => ~Touches(s[j], f)
  <2>1. i \in DOMAIN s /\ P(i)
    OBVIOUS
  <2>2. ASSUME NEW k \in DOMAIN s, P(k)  PROVE k = i
    BY <1>1, <2>1, <2>2
  <2> HIDE DEF P
  <2>3. (CHOOSE k \in DOMAIN s : P(k)) = i
    BY <2>1, <2>2
  <2> QED  BY <2>3 DEF P, LastTouch
<1> QED  BY <1>2 DEF After

\* A field that some step writes is written by a last one.
LEMMA LastExists ==
  ASSUME NEW S, NEW s \in Seq(S), NEW f,
         \E i \in DOMAIN s : Touches(s[i], f)
  PROVE  \E i \in DOMAIN s :
           Touches(s[i], f) /\ \A j \in DOMAIN s : j > i => ~Touches(s[j], f)
<1>1. DOMAIN s = 1..Len(s) /\ Len(s) \in Nat
  BY LenProperties
<1> DEFINE T == {k \in Nat : \E i \in DOMAIN s :
                               Touches(s[i], f) /\ k = Len(s) - i}
<1>2. T # {}
  BY <1>1
<1>3. PICK k \in T : \A m \in T : k <= m
  BY <1>2, LeastNatural
<1>4. PICK i \in DOMAIN s : Touches(s[i], f) /\ k = Len(s) - i
  BY <1>3
<1>5. ASSUME NEW j \in DOMAIN s, j > i, Touches(s[j], f)  PROVE FALSE
  <2>1. Len(s) - j \in T
    BY <1>1, <1>5
  <2>2. k <= Len(s) - j
    BY <1>3, <2>1
  <2> QED  BY <1>1, <1>4, <1>5, <2>2
<1> QED  BY <1>4, <1>5

\* A field that no step writes stays.
LEMMA UntouchedStays ==
  ASSUME NEW s, NEW f, NEW x, \A i \in DOMAIN s : ~Touches(s[i], f)
  PROVE  After(s, f, x) = x
BY DEF After

\* One sequence of steps after the other.
LEMMA AfterConcat ==
  ASSUME NEW S, NEW s \in Seq(S), NEW t \in Seq(S), NEW f, NEW x
  PROVE  After(s \o t, f, x) = After(t, f, After(s, f, x))
<1> DEFINE u == s \o t
<1>1. /\ DOMAIN s = 1..Len(s) /\ Len(s) \in Nat
      /\ DOMAIN t = 1..Len(t) /\ Len(t) \in Nat
      /\ u \in Seq(S) /\ Len(u) = Len(s) + Len(t)
      /\ DOMAIN u = 1..(Len(s) + Len(t))
      /\ \A i \in 1..(Len(s) + Len(t)) :
           u[i] = IF i <= Len(s) THEN s[i] ELSE t[i - Len(s)]
  BY LenProperties, ConcatProperties
<1> HIDE DEF u
<1>2. \A i \in DOMAIN t : i + Len(s) \in DOMAIN u /\ u[i + Len(s)] = t[i]
  BY <1>1
<1>3. \A i \in DOMAIN s : i \in DOMAIN u /\ u[i] = s[i]
  BY <1>1
<1>4. \A j \in DOMAIN u : \/ j \in DOMAIN s /\ u[j] = s[j]
                          \/ j > Len(s) /\ j - Len(s) \in DOMAIN t
                               /\ u[j] = t[j - Len(s)]
  BY <1>1
<1>5. CASE \E i \in DOMAIN t : Touches(t[i], f)
  <2>1. PICK i \in DOMAIN t :
          Touches(t[i], f) /\ \A j \in DOMAIN t : j > i => ~Touches(t[j], f)
    BY <1>5, LastExists
  <2>2. \A y : After(t, f, y) = AfterStep(t[i], f, y)
    BY <2>1, LastDecides
  <2>3. \A j \in DOMAIN u : j > i + Len(s) => ~Touches(u[j], f)
    <3> TAKE j \in DOMAIN u
    <3> HAVE j > i + Len(s)
    <3>1. j - Len(s) \in DOMAIN t /\ u[j] = t[j - Len(s)]
      BY <1>1, <1>4
    <3>2. j - Len(s) > i
      BY <1>1
    <3> QED  BY <2>1, <3>1, <3>2
  <2>4. After(u, f, x) = AfterStep(u[i + Len(s)], f, x)
    <3> DEFINE n == i + Len(s)
    <3>1. n \in DOMAIN u /\ Touches(u[n], f) /\ u \in Seq(S)
      BY <1>1, <1>2, <2>1
    <3>2. \A j \in DOMAIN u : j > n => ~Touches(u[j], f)
      BY <2>3
    <3> HIDE DEF n
    <3>3. After(u, f, x) = AfterStep(u[n], f, x)
      BY <3>1, <3>2, LastDecides
    <3> QED  BY <3>3 DEF n
  <2>5. AfterStep(t[i], f, x) = AfterStep(t[i], f, After(s, f, x))
    BY <2>1 DEF AfterStep
  <2> QED  BY <1>2, <2>1, <2>2, <2>4, <2>5 DEF u
<1>6. CASE /\ \A i \in DOMAIN t : ~Touches(t[i], f)
           /\ \E i \in DOMAIN s : Touches(s[i], f)
  <2>1. PICK i \in DOMAIN s :
          Touches(s[i], f) /\ \A j \in DOMAIN s : j > i => ~Touches(s[j], f)
    BY <1>6, LastExists
  <2>2. After(s, f, x) = AfterStep(s[i], f, x)
    BY <2>1, LastDecides
  <2>3. \A j \in DOMAIN u : j > i => ~Touches(u[j], f)
    BY <1>4, <1>6, <2>1
  <2>4. After(u, f, x) = AfterStep(u[i], f, x)
    BY <1>1, <1>3, <2>1, <2>3, LastDecides
  <2>5. After(t, f, After(s, f, x)) = After(s, f, x)
    BY <1>6, UntouchedStays
  <2> QED  BY <1>3, <2>1, <2>2, <2>4, <2>5 DEF u
<1>7. CASE /\ \A i \in DOMAIN t : ~Touches(t[i], f)
           /\ \A i \in DOMAIN s : ~Touches(s[i], f)
  <2>1. \A j \in DOMAIN u : ~Touches(u[j], f)
    BY <1>4, <1>7
  <2> QED  BY <1>7, <2>1, UntouchedStays DEF u
<1> QED  BY <1>5, <1>6, <1>7

\* A sequence of one step, and of none.
LEMMA AfterSingle ==
  ASSUME NEW step, NEW f, NEW x
  PROVE  After(<<step>>, f, x) = AfterStep(step, f, x)
<1>1. <<step>> \in Seq({step}) /\ DOMAIN <<step>> = {1} /\ <<step>>[1] = step
  OBVIOUS
<1>2. CASE Touches(step, f)
  <2>1. \A j \in DOMAIN <<step>> : j > 1 => ~Touches(<<step>>[j], f)
    BY <1>1
  <2> QED  BY <1>1, <1>2, <2>1, LastDecides
<1>3. CASE ~Touches(step, f)
  BY <1>1, <1>3, UntouchedStays DEF AfterStep
<1> QED  BY <1>2, <1>3

\* A field keeps its value where nothing is written.
LEMMA AfterNone == \A f, x : After(<<>>, f, x) = x
BY UntouchedStays

\* Doing the first step of a sequence changes nothing of where it leads to.
LEMMA AfterTail ==
  ASSUME NEW S, NEW s \in Seq(S), NEW f, NEW x, s # <<>>
  PROVE  /\ Tail(s) \in Seq(S) /\ Head(s) \in S
         /\ After(s, f, x) = After(Tail(s), f, AfterStep(Head(s), f, x))
<1>1. /\ Head(s) \in S /\ Tail(s) \in Seq(S) /\ Len(Tail(s)) = Len(s) - 1
      /\ \A i \in 1..Len(Tail(s)) : Tail(s)[i] = s[i + 1]
      /\ Len(s) \in Nat \ {0}
  BY HeadTailProperties, EmptySeq
<1>2. <<Head(s)>> \in Seq(S) /\ Len(<<Head(s)>>) = 1
      /\ <<Head(s)>>[1] = Head(s)
  BY <1>1
<1> DEFINE u == <<Head(s)>> \o Tail(s)
<1>3. /\ u \in Seq(S) /\ Len(u) = Len(s)
      /\ \A i \in 1..Len(s) : u[i] = IF i <= 1 THEN <<Head(s)>>[i]
                                              ELSE Tail(s)[i - 1]
  <2>1. /\ u \in Seq(S) /\ Len(u) = Len(<<Head(s)>>) + Len(Tail(s))
        /\ \A i \in 1..(Len(<<Head(s)>>) + Len(Tail(s))) :
             u[i] = IF i <= Len(<<Head(s)>>) THEN <<Head(s)>>[i]
                    ELSE Tail(s)[i - Len(<<Head(s)>>)]
    BY <1>1, <1>2, ConcatProperties
  <2> HIDE DEF u
  <2> QED  BY <1>1, <1>2, <2>1
<1> HIDE DEF u
<1>4. \A i \in 1..Len(s) : u[i] = s[i]
  <2> TAKE i \in 1..Len(s)
  <2>1. CASE i = 1
    BY <1>1, <1>2, <1>3, <2>1
  <2>2. CASE i > 1
    BY <1>1, <1>3, <2>2
  <2> QED  BY <1>1, <2>1, <2>2
<1>5. u = s
  BY <1>3, <1>4, SeqEqual
<1>6. After(u, f, x) = After(Tail(s), f, After(<<Head(s)>>, f, x))
  <2> DEFINE one == <<Head(s)>>
             rest == Tail(s)
  <2>1. one \in Seq(S) /\ rest \in Seq(S) /\ u = one \o rest
    BY <1>1, <1>2 DEF u
  <2> HIDE DEF one, rest
  <2>2. After(u, f, x) = After(rest, f, After(one, f, x))
    BY <2>1, AfterConcat
  <2> QED  BY <2>2 DEF one, rest
<1> QED  BY <1>1, <1>5, <1>6, AfterSingle

\* What a step can write, it can write of nothing else.
LEMMA StaysWithin ==
  ASSUME NEW E, NEW s \in Seq(SUBSET E), NEW f, NEW x, \A e \in E : e[1] # f
  PROVE  After(s, f, x) = x
<1>1. \A i \in DOMAIN s : s[i] \in SUBSET E
  BY ElementOfSeq, LenProperties
<1> QED  BY <1>1, UntouchedStays DEF Touches

\* The register fields that one Put writes, and no others.
LEMMA AfterPut ==
  ASSUME NEW F, NEW v, NEW f, NEW x
  PROVE  After(Put(F, v), f, x) = IF f \in F THEN v ELSE x
<1> DEFINE step == {<<g, v>> : g \in F}
<1>1. After(Put(F, v), f, x) = AfterStep(step, f, x)
  BY AfterSingle DEF Put
<1>2. CASE f \in F
  <2>1. <<f, v>> \in step /\ \A e \in step : e[2] = v
    BY <1>2
  <2>2. Touches(step, f)
    BY <2>1 DEF Touches
  <2>3. (CHOOSE e \in step : e[1] = f) \in step
    BY <2>1
  <2> QED  BY <1>1, <1>2, <2>1, <2>2, <2>3 DEF AfterStep
<1>3. CASE f \notin F
  BY <1>1, <1>3 DEF AfterStep, Touches
<1> QED  BY <1>2, <1>3

\* A sequence of two steps.
LEMMA AfterPair ==
  ASSUME NEW a, NEW b, NEW f, NEW x
  PROVE  After(<<a, b>>, f, x) = AfterStep(b, f, AfterStep(a, f, x))
<1> DEFINE s == <<a, b>>
<1>1. s \in Seq({a, b}) /\ s # <<>> /\ Head(s) = a /\ Tail(s) = <<b>>
  OBVIOUS
<1> HIDE DEF s
<1>2. After(s, f, x) = After(Tail(s), f, AfterStep(Head(s), f, x))
  BY <1>1, AfterTail
<1> QED  BY <1>1, <1>2, AfterSingle DEF s

\* A step that writes two fields.
Two(g, v, h, w) == {<<g, v>>, <<h, w>>}

\* Each of the two fields gets its own value.
LEMMA AfterTwo ==
  ASSUME NEW g, NEW v, NEW h, NEW w, NEW f, NEW x, g # h
  PROVE  AfterStep(Two(g, v, h, w), f, x) =
           IF f = g THEN v ELSE IF f = h THEN w ELSE x
<1> DEFINE step == Two(g, v, h, w)
<1>2. \A e \in step : (e[1] = g /\ e[2] = v) \/ (e[1] = h /\ e[2] = w)
  BY DEF Two
<1>3. \E e \in step : e[1] = g
  BY DEF Two
<1>4. \E e \in step : e[1] = h
  BY DEF Two
<1> HIDE DEF step
<1>5. CASE f \in {g, h}
  <2>1. (CHOOSE e \in step : e[1] = f) \in step
          /\ (CHOOSE e \in step : e[1] = f)[1] = f
    BY <1>3, <1>4, <1>5
  <2> QED  BY <1>2, <1>3, <1>4, <1>5, <2>1 DEF AfterStep, Touches, step
<1>6. CASE f \notin {g, h}
  BY <1>2, <1>6 DEF AfterStep, Touches, step
<1> QED  BY <1>5, <1>6

\* Whether the radio listens, as a value of a field.
Off == FALSE

\* phy_set_rf_reg writes its field, and lets the radio listen again.
LEMMA AfterRfPut ==
  ASSUME NEW g, NEW v, g # "ccaOff", NEW f, NEW x
  PROVE  /\ f = g => After(RfPut(g, v), f, x) = v
         /\ f = "ccaOff" /\ ~board.cCut => After(RfPut(g, v), f, x) = Off
         /\ f # g /\ (f # "ccaOff" \/ board.cCut) =>
                After(RfPut(g, v), f, x) = x
<1>1. CASE board.cCut
  BY <1>1, AfterPut DEF RfPut
<1>2. CASE ~board.cCut
  <2> DEFINE a == {<<"ccaOff", TRUE>>}
             b == Two("ccaOff", Off, g, v)
  <2>1. RfPut(g, v) = <<a, b>>
    BY <1>2 DEF RfPut, Two, Off
  <2>2. f # "ccaOff" => AfterStep(a, f, x) = x
    BY DEF AfterStep, Touches
  <2> HIDE DEF a
  <2>3. \A y : AfterStep(b, f, y) = IF f = "ccaOff" THEN Off
                                    ELSE IF f = g THEN v ELSE y
    BY AfterTwo
  <2> HIDE DEF b
  <2>4. After(<<a, b>>, f, x) = IF f = "ccaOff" THEN Off
                                ELSE IF f = g THEN v ELSE AfterStep(a, f, x)
    BY <2>3, AfterPair
  <2> QED  BY <1>2, <2>1, <2>2, <2>4
<1> QED  BY <1>1, <1>2

\* One piece of a program after the other.
LEMMA Joined ==
  ASSUME NEW S, NEW s \in Seq(S), NEW t \in Seq(S)
  PROVE  /\ s \o t \in Seq(S)
         /\ s # <<>> \/ t # <<>> => s \o t # <<>>
         /\ \A f, x : After(s \o t, f, x) = After(t, f, After(s, f, x))
<1>1. s \o t \in Seq(S)
  BY ConcatProperties
<1>2. s # <<>> \/ t # <<>> => s \o t # <<>>
  BY ConcatEqualIffEmpty
<1> QED  BY <1>1, <1>2, AfterConcat

\* Four pieces, one after the other.
LEMMA Joined4 ==
  ASSUME NEW S, NEW s1 \in Seq(S), NEW s2 \in Seq(S), NEW s3 \in Seq(S),
         NEW s4 \in Seq(S)
  PROVE  /\ s1 \o s2 \o s3 \o s4 \in Seq(S)
         /\ s1 # <<>> \/ s2 # <<>> \/ s3 # <<>> \/ s4 # <<>>
              => s1 \o s2 \o s3 \o s4 # <<>>
         /\ \A f, x : After(s1 \o s2 \o s3 \o s4, f, x) =
              After(s4, f, After(s3, f, After(s2, f, After(s1, f, x))))
<1> DEFINE q2 == s1 \o s2
           q3 == q2 \o s3
<1>1. /\ q2 \in Seq(S) /\ (s1 # <<>> \/ s2 # <<>> => q2 # <<>>)
      /\ \A f, x : After(q2, f, x) = After(s2, f, After(s1, f, x))
  BY Joined
<1> HIDE DEF q2
<1>2. /\ q3 \in Seq(S) /\ (q2 # <<>> \/ s3 # <<>> => q3 # <<>>)
      /\ \A f, x : After(q3, f, x) = After(s3, f, After(q2, f, x))
  BY <1>1, Joined
<1> HIDE DEF q3
<1>3. /\ q3 \o s4 \in Seq(S) /\ (q3 # <<>> \/ s4 # <<>> => q3 \o s4 # <<>>)
      /\ \A f, x : After(q3 \o s4, f, x) = After(s4, f, After(q3, f, x))
  BY <1>2, Joined
<1>4. \A f, x : After(q3 \o s4, f, x) =
              After(s4, f, After(s3, f, After(s2, f, After(s1, f, x))))
  BY <1>1, <1>2, <1>3
<1> QED  BY <1>1, <1>2, <1>3, <1>4 DEF q2, q3

\* Three pieces, one after the other.
LEMMA Joined3 ==
  ASSUME NEW S, NEW s1 \in Seq(S), NEW s2 \in Seq(S), NEW s3 \in Seq(S)
  PROVE  /\ s1 \o s2 \o s3 \in Seq(S)
         /\ s1 # <<>> \/ s2 # <<>> \/ s3 # <<>> => s1 \o s2 \o s3 # <<>>
         /\ \A f, x : After(s1 \o s2 \o s3, f, x) =
              After(s3, f, After(s2, f, After(s1, f, x)))
<1> DEFINE q2 == s1 \o s2
<1>1. /\ q2 \in Seq(S) /\ (s1 # <<>> \/ s2 # <<>> => q2 # <<>>)
      /\ \A f, x : After(q2, f, x) = After(s2, f, After(s1, f, x))
  BY Joined
<1> HIDE DEF q2
<1>2. /\ q2 \o s3 \in Seq(S) /\ (q2 # <<>> \/ s3 # <<>> => q2 \o s3 # <<>>)
      /\ \A f, x : After(q2 \o s3, f, x) = After(s3, f, After(q2, f, x))
  BY <1>1, Joined
<1>3. \A f, x : After(q2 \o s3, f, x) =
              After(s3, f, After(s2, f, After(s1, f, x)))
  BY <1>1, <1>2
<1> QED  BY <1>1, <1>2, <1>3 DEF q2

\* A single masked write is a piece.
LEMMA PutShape ==
  ASSUME NEW E, NEW F, NEW v, \A f \in F : <<f, v>> \in E
  PROVE  /\ Put(F, v) \in Seq(SUBSET E) /\ Put(F, v) # <<>>
         /\ \A f, x : After(Put(F, v), f, x) = IF f \in F THEN v ELSE x
<1> DEFINE step == {<<f, v>> : f \in F}
<1>1. step \in SUBSET E
  OBVIOUS
<1>2. Put(F, v) = <<step>>
  BY DEF Put
<1> HIDE DEF step
<1>3. Put(F, v) \in Seq(SUBSET E) /\ Put(F, v) # <<>>
  BY <1>1, <1>2
<1> QED  BY <1>3, AfterPut

\* PHY_SwitchWirelessBand8812 leaves all of the front end on one band.
LEMMA SwitchBandShape ==
  ASSUME NEW band \in Bands, NEW width
  PROVE  /\ SwitchBand(band, width) \in Seq(SUBSET BandEntries)
         /\ SwitchBand(band, width) # <<>>
         /\ \A f \in BandFields : \A x :
              After(SwitchBand(band, width), f, x) = band
<1> DEFINE S == SUBSET BandEntries
           p1 == Put({"bwIndication"}, band)
           p2 == Put({"pdTh"}, band)
           p3 == Put({"pwed"}, Pwed(band, width))
           p4 == Put({"agcTable", "rfePinmux"}, band)
           p5 == Put({"rfeInvA"}, band)
           p6 == Put({"rfeInvB"}, band)
           p7 == Put({"txPath"}, band)
           p8 == Put({"cckRx"}, band)
           before == p1 \o p2 \o p3 \o p4 \o p5 \o p6 \o p7 \o p8
           s1 == Put({"swingA"}, band)
           s2 == Put({"swingB"}, band)
           swing == s1 \o s2
           mark == Put({"cckCheck"}, band)
<1>1. SwitchBand(band, width) = IF band = "2.4G" THEN before \o mark \o swing
                                                 ELSE mark \o before \o swing
  BY DEF SwitchBand
<1>2. Pwed(band, width) \in Word
  BY DEF Pwed, Word
<1>3. /\ \A f \in BandFields : <<f, band>> \in BandEntries
      /\ <<"pwed", Pwed(band, width)>> \in BandEntries
  BY <1>2 DEF BandEntries
<1>4. {"bwIndication", "pdTh", "agcTable", "rfePinmux", "rfeInvA", "rfeInvB",
       "txPath", "cckRx", "swingA", "swingB", "cckCheck"} = BandFields
  BY DEF BandFields, FrontEnd
<1>5. /\ p1 \in Seq(S) /\ p2 \in Seq(S) /\ p3 \in Seq(S) /\ p4 \in Seq(S)
      /\ p5 \in Seq(S) /\ p6 \in Seq(S) /\ p7 \in Seq(S) /\ p8 \in Seq(S)
      /\ s1 \in Seq(S) /\ s2 \in Seq(S) /\ mark \in Seq(S) /\ mark # <<>>
  <2>1. \A F \in SUBSET BandFields : /\ Put(F, band) \in Seq(S)
                                     /\ Put(F, band) # <<>>
    BY <1>3, PutShape
  <2>2. p3 \in Seq(S)
    BY <1>3, PutShape
  <2> HIDE DEF S
  <2> QED  BY <1>4, <2>1, <2>2
<1>6. \A f, x :
        /\ After(p1, f, x) = IF f = "bwIndication" THEN band ELSE x
        /\ After(p2, f, x) = IF f = "pdTh" THEN band ELSE x
        /\ f # "pwed" => After(p3, f, x) = x
        /\ After(p4, f, x) =
             IF f \in {"agcTable", "rfePinmux"} THEN band ELSE x
        /\ After(p5, f, x) = IF f = "rfeInvA" THEN band ELSE x
        /\ After(p6, f, x) = IF f = "rfeInvB" THEN band ELSE x
        /\ After(p7, f, x) = IF f = "txPath" THEN band ELSE x
        /\ After(p8, f, x) = IF f = "cckRx" THEN band ELSE x
        /\ After(s1, f, x) = IF f = "swingA" THEN band ELSE x
        /\ After(s2, f, x) = IF f = "swingB" THEN band ELSE x
        /\ After(mark, f, x) = IF f = "cckCheck" THEN band ELSE x
  BY AfterPut
<1> HIDE DEF S, p1, p2, p3, p4, p5, p6, p7, p8, s1, s2, mark
<1>7. swing \in Seq(S) /\ \A f, x : After(swing, f, x) =
                            After(s2, f, After(s1, f, x))
  BY <1>5, Joined
<1>8. before \in Seq(S) /\ \A f, x : After(before, f, x) =
        After(p8, f, After(p7, f, After(p6, f, After(p5, f,
          After(p4, f, After(p3, f, After(p2, f, After(p1, f, x))))))))
  <2> DEFINE q4 == p1 \o p2 \o p3 \o p4
             q7 == q4 \o p5 \o p6 \o p7
  <2>1. q4 \in Seq(S) /\ \A f, x : After(q4, f, x) =
          After(p4, f, After(p3, f, After(p2, f, After(p1, f, x))))
    BY <1>5, Joined4
  <2> HIDE DEF q4
  <2>2. q7 \in Seq(S) /\ \A f, x : After(q7, f, x) =
          After(p7, f, After(p6, f, After(p5, f, After(q4, f, x))))
    BY <1>5, <2>1, Joined4
  <2> HIDE DEF q7
  <2>3. q7 \o p8 \in Seq(S) /\ \A f, x : After(q7 \o p8, f, x) =
          After(p8, f, After(q7, f, x))
    BY <1>5, <2>2, Joined
  <2>4. before = q7 \o p8
    BY DEF q4, q7
  <2> HIDE DEF before
  <2> QED  BY <2>1, <2>2, <2>3, <2>4
<1> HIDE DEF before, swing
<1>9. /\ before \o mark \o swing \in Seq(S) /\ before \o mark \o swing # <<>>
      /\ \A f, x : After(before \o mark \o swing, f, x) =
           After(swing, f, After(mark, f, After(before, f, x)))
  BY <1>5, <1>7, <1>8, Joined3
<1>10. /\ mark \o before \o swing \in Seq(S) /\ mark \o before \o swing # <<>>
       /\ \A f, x : After(mark \o before \o swing, f, x) =
            After(swing, f, After(before, f, After(mark, f, x)))
  BY <1>5, <1>7, <1>8, Joined3
<1>11. ASSUME NEW f \in BandFields, NEW x
       PROVE  /\ After(before \o mark \o swing, f, x) = band
              /\ After(mark \o before \o swing, f, x) = band
  <2>1. f \in {"bwIndication", "pdTh", "agcTable", "rfePinmux", "rfeInvA",
               "rfeInvB", "txPath", "cckRx", "swingA", "swingB", "cckCheck"}
    BY <1>4
  <2>2. \A y : /\ f \in {"bwIndication", "pdTh", "agcTable", "rfePinmux",
                         "rfeInvA", "rfeInvB", "txPath", "cckRx"}
                    => After(before, f, y) = band
               /\ f \in {"swingA", "swingB", "cckCheck"}
                    => After(before, f, y) = y
    BY <1>6, <1>8, <2>1
  <2>3. \A y : After(swing, f, y) = IF f \in {"swingA", "swingB"} THEN band
                                    ELSE y
    BY <1>6, <1>7, <2>1
  <2>4. \A y : After(mark, f, y) = IF f = "cckCheck" THEN band ELSE y
    BY <1>6
  <2> QED  BY <1>9, <1>10, <2>1, <2>2, <2>3, <2>4
<1> HIDE DEF S
<1>12. SwitchBand(band, width) \in Seq(S) /\ SwitchBand(band, width) # <<>>
  BY <1>1, <1>9, <1>10
<1>13. \A f \in BandFields : \A x :
         After(SwitchBand(band, width), f, x) = band
  BY <1>1, <1>11
<1> QED  BY <1>12, <1>13 DEF S

\* What a byte holds, a register does.
LEMMA SmallWords == \A n \in 0..255 : n \in Word
BY DEF Word

\* phy_set_rf_reg is a piece of a program.
LEMMA RfPutShape == 
  ASSUME NEW E, NEW g, NEW v, g # "ccaOff", <<g, v>> \in E,
         ~board.cCut => {"ccaOff"} \X BOOLEAN \subseteq E
  PROVE  /\ RfPut(g, v) \in Seq(SUBSET E) /\ RfPut(g, v) # <<>>
<1> DEFINE S == SUBSET E
<1>1. RfPut(g, v) \in Seq(S) /\ RfPut(g, v) # <<>>
  <2>1. CASE board.cCut
    <3>1. RfPut(g, v) = Put({g}, v)
      BY <2>1 DEF RfPut
    <3>2. Put({g}, v) \in Seq(S) /\ Put({g}, v) # <<>>
      BY PutShape
    <3> QED  BY <3>1, <3>2
  <2>2. CASE ~board.cCut
    <3> DEFINE a == {<<"ccaOff", TRUE>>}
               b == {<<"ccaOff", FALSE>>, <<g, v>>}
    <3>1. a \in S /\ b \in S
      BY <2>2
    <3>2. RfPut(g, v) = <<a, b>>
      BY <2>2 DEF RfPut
    <3> HIDE DEF a, b, S
    <3> QED  BY <3>1, <3>2
  <2> QED  BY <2>1, <2>2
<1> QED  BY <1>1

\* phy_FixSpur_8812A is a piece of a program: what it does to the clock and to
\* the buffer it reads.
LEMMA FixSpurShape ==
  ASSUME NEW E, NEW center \in 0..255, NEW width \in 0..2,
         {"fifoClk", "adcClk", "adcBuf"} \X Word \subseteq E
  PROVE  FixSpur(center, width) \in Seq(SUBSET E)
<1> DEFINE S == SUBSET E
           high == width = 0 /\ center \in {13, 14}
           wide11 == width = 1 /\ center = 11
           p1 == Put({"fifoClk"}, IF wide11 THEN 3 ELSE 2)
           c3 == Put({"adcClk"}, 3)
           c2 == Put({"adcClk"}, 2)
           b1 == Put({"adcBuf"}, 1)
           b0 == Put({"adcBuf"}, 0)
           t1 == c3 \o b1
           t2 == c2 \o b0
           none == <<>>
           rest == IF high THEN t1 ELSE IF wide11 THEN b1
                   ELSE IF width # 2 THEN t2 ELSE none
           other == IF high THEN c3 ELSE IF center <= 14 THEN c2 ELSE none
           P == FixSpur(center, width)
<1>1. P = IF board.cCut THEN p1 \o rest ELSE other
  BY DEF FixSpur
<1>2. /\ p1 \in Seq(S) /\ c3 \in Seq(S) /\ c2 \in Seq(S)
      /\ b1 \in Seq(S) /\ b0 \in Seq(S) /\ none \in Seq(S)
  <2>1. \A f \in {"fifoClk", "adcClk", "adcBuf"}, v \in 0..3 : <<f, v>> \in E
    <3>1. \A v \in 0..3 : v \in Word
      BY SmallWords
    <3>2. {"fifoClk", "adcClk", "adcBuf"} \X Word \subseteq E
      OBVIOUS
    <3> HIDE DEF S, high, wide11, p1, c3, c2, b1, b0, t1, t2, rest, other
    <3> QED  BY <3>1, <3>2
  <2>2. \A f \in {"fifoClk", "adcClk", "adcBuf"}, v \in 0..3 :
          Put({f}, v) \in Seq(S)
    BY <2>1, PutShape
  <2> HIDE DEF S
  <2> QED  BY <2>2
<1> HIDE DEF S, p1, c3, c2, b1, b0, none, high, wide11, P
<1>3. t1 \in Seq(S) /\ t2 \in Seq(S)
  BY <1>2, Joined
<1> HIDE DEF t1, t2
<1>4. rest \in Seq(S) /\ other \in Seq(S)
  BY <1>2, <1>3
<1> HIDE DEF rest, other
<1>5. p1 \o rest \in Seq(S)
  BY <1>2, <1>4, Joined
<1> QED  BY <1>1, <1>4, <1>5 DEF P, S

\* What phy_FixSpur_8812A does to the clock and the buffer it reads.
LEMMA FixSpurEffect ==
  ASSUME NEW center \in 0..255, NEW width \in 0..2
  PROVE  LET P == FixSpur(center, width)
             old == IF width = 2 THEN 1 ELSE 0
         IN /\ After(P, "adcClk", 2) =
                 IF <<width, center>> \in Spur20 THEN 3 ELSE 2
            /\ After(P, "adcBuf", old) =
                 IF board.cCut /\ <<width, center>> \in Spurs THEN 1 ELSE old
<1> DEFINE E == {"fifoClk", "adcClk", "adcBuf"} \X Word
           S == SUBSET E
           high == width = 0 /\ center \in {13, 14}
           wide11 == width = 1 /\ center = 11
           p1 == Put({"fifoClk"}, IF wide11 THEN 3 ELSE 2)
           c3 == Put({"adcClk"}, 3)
           c2 == Put({"adcClk"}, 2)
           b1 == Put({"adcBuf"}, 1)
           b0 == Put({"adcBuf"}, 0)
           t1 == c3 \o b1
           t2 == c2 \o b0
           none == <<>>
           rest == IF high THEN t1 ELSE IF wide11 THEN b1
                   ELSE IF width # 2 THEN t2 ELSE none
           other == IF high THEN c3 ELSE IF center <= 14 THEN c2 ELSE none
           old == IF width = 2 THEN 1 ELSE 0
           P == FixSpur(center, width)
<1>1. P = IF board.cCut THEN p1 \o rest ELSE other
  BY DEF FixSpur
<1>2. /\ p1 \in Seq(S) /\ c3 \in Seq(S) /\ c2 \in Seq(S)
      /\ b1 \in Seq(S) /\ b0 \in Seq(S) /\ none \in Seq(S)
  <2>1. \A f \in {"fifoClk", "adcClk", "adcBuf"}, v \in 0..3 : <<f, v>> \in E
    <3>1. \A v \in 0..3 : v \in Word
      BY SmallWords
    <3>2. {"fifoClk", "adcClk", "adcBuf"} \X Word \subseteq E
      OBVIOUS
    <3> HIDE DEF S, high, wide11, p1, c3, c2, b1, b0, t1, t2, rest, other
    <3> QED  BY <3>1, <3>2
  <2>2. \A f \in {"fifoClk", "adcClk", "adcBuf"}, v \in 0..3 :
          Put({f}, v) \in Seq(S)
    BY <2>1, PutShape
  <2> HIDE DEF S
  <2> QED  BY <2>2
<1>3. \A f, x : /\ f # "fifoClk" => After(p1, f, x) = x
                /\ After(c3, f, x) = IF f = "adcClk" THEN 3 ELSE x
                /\ After(c2, f, x) = IF f = "adcClk" THEN 2 ELSE x
                /\ After(b1, f, x) = IF f = "adcBuf" THEN 1 ELSE x
                /\ After(b0, f, x) = IF f = "adcBuf" THEN 0 ELSE x
                /\ After(none, f, x) = x
  BY AfterPut, AfterNone
<1>4. /\ (high <=> <<width, center>> \in Spur20)
      /\ (high \/ wide11 <=> <<width, center>> \in Spurs)
      /\ (high => width # 2) /\ (wide11 => width # 2) /\ ~(high /\ wide11)
      /\ (high => center <= 14)
  BY DEF Spur20, Spurs
<1> HIDE DEF S, p1, c3, c2, b1, b0, none, high, wide11, P
<1>5. /\ t1 \in Seq(S)
      /\ \A f, x : After(t1, f, x) = After(b1, f, After(c3, f, x))
  BY <1>2, Joined
<1>6. /\ t2 \in Seq(S)
      /\ \A f, x : After(t2, f, x) = After(b0, f, After(c2, f, x))
  BY <1>2, Joined
<1> HIDE DEF t1, t2
<1>7. rest \in Seq(S) /\ other \in Seq(S)
  BY <1>2, <1>5, <1>6
<1>8. /\ After(rest, "adcClk", 2) = IF high THEN 3 ELSE 2
      /\ After(rest, "adcBuf", old) = IF high \/ wide11 THEN 1 ELSE old
  BY <1>3, <1>4, <1>5, <1>6
<1>9. /\ \A f, x : f # "adcClk" => After(other, f, x) = x
      /\ After(other, "adcClk", 2) = IF high THEN 3 ELSE 2
  BY <1>3, <1>4
<1> HIDE DEF rest, other, old
<1>10. /\ p1 \o rest \in Seq(S)
       /\ \A f, x : After(p1 \o rest, f, x) = After(rest, f, After(p1, f, x))
  BY <1>2, <1>7, Joined
<1>11. P \in Seq(S)
  BY <1>1, <1>7, <1>10
<1>13. After(P, "adcClk", 2) = IF <<width, center>> \in Spur20 THEN 3 ELSE 2
  <2>1. After(p1, "adcClk", 2) = 2
    BY <1>3
  <2>2. After(p1 \o rest, "adcClk", 2) = After(rest, "adcClk", 2)
    BY <1>10, <2>1
  <2> QED  BY <1>1, <1>4, <1>8, <1>9, <2>2
<1>14. After(P, "adcBuf", old) =
         IF board.cCut /\ <<width, center>> \in Spurs THEN 1 ELSE old
  <2>1. After(p1, "adcBuf", old) = old
    BY <1>3
  <2>2. After(p1 \o rest, "adcBuf", old) = After(rest, "adcBuf", old)
    BY <1>10, <2>1
  <2>3. After(other, "adcBuf", old) = old
    BY <1>9
  <2> QED  BY <1>1, <1>4, <1>8, <2>2, <2>3
<1> QED  BY <1>13, <1>14 DEF P, old

\* What the programs write are register values.
LEMMA WordsWritten ==
  ASSUME NEW center \in 0..255, NEW width \in 0..2, NEW sc80
  PROVE  /\ FcArea(center) \in Word /\ ModAg(center) \in Word
         /\ center \in Word /\ width \in Word
         /\ RfBw(width) \in Word /\ L1Peak(width) \in Word
         /\ SecondaryChnl(width, sc80) \in 0..255
<1>1. FcArea(center) \in Word
  BY DEF FcArea, Word
<1>2. ModAg(center) \in Word
  BY DEF ModAg, Word
<1>3. center \in Word /\ width \in Word
  BY SmallWords
<1>4. RfBw(width) \in Word /\ L1Peak(width) \in Word
  <2>1. width = 0 \/ width = 1 \/ width = 2
    OBVIOUS
  <2>2. RfBw(width) \in 0..255 /\ L1Peak(width) \in 0..255
    BY <2>1 DEF RfBw, L1Peak
  <2> QED  BY <2>2, SmallWords
<1>5. SecondaryChnl(width, sc80) \in 0..255
  BY DEF SecondaryChnl
<1> QED  BY <1>1, <1>2, <1>3, <1>4, <1>5

\* phy_FixSpur_8812A leaves the other fields alone.
LEMMA FixSpurLeaves ==
  ASSUME NEW center \in 0..255, NEW width \in 0..2, NEW f, NEW x,
         f \notin {"fifoClk", "adcClk", "adcBuf"}
  PROVE  After(FixSpur(center, width), f, x) = x
<1> DEFINE E == {"fifoClk", "adcClk", "adcBuf"} \X Word
<1>1. \A e \in E : e[1] # f
  OBVIOUS
<1>2. {"fifoClk", "adcClk", "adcBuf"} \X Word \subseteq E
  OBVIOUS
<1> HIDE DEF E
<1>3. FixSpur(center, width) \in Seq(SUBSET E)
  BY <1>2, FixSpurShape
<1> QED  BY <1>1, <1>3, StaysWithin

\* One path of the radio, in phy_SwChnl8812.
LEMMA OnPathShape ==
  ASSUME NEW center \in 0..255, NEW width \in 0..2,
         NEW ag \in ChannelFields, NEW ch \in ChannelFields
  PROVE  OnPath(center, width, ag, ch) \in Seq(SUBSET ChnlEntries)
<1> DEFINE E == ChnlEntries
           S == SUBSET E
           r1 == RfPut(ag, ModAg(center))
           fix == FixSpur(center, width)
           r2 == RfPut(ch, center)
<1>1. ag # "ccaOff" /\ ch # "ccaOff"
  BY DEF ChannelFields
<1>2. /\ <<ag, ModAg(center)>> \in E /\ <<ch, center>> \in E
      /\ {"fifoClk", "adcClk", "adcBuf"} \X Word \subseteq E
      /\ ~board.cCut => {"ccaOff"} \X BOOLEAN \subseteq E
  <2>1. ModAg(center) \in Word /\ center \in Word
    BY WordsWritten
  <2> QED  BY <2>1 DEF ChnlEntries, CcaEntries
<1> HIDE DEF E
<1>3. r1 \in Seq(S)
  BY <1>1, <1>2, RfPutShape
<1>4. r2 \in Seq(S)
  BY <1>1, <1>2, RfPutShape
<1>5. fix \in Seq(S)
  BY <1>2, FixSpurShape
<1> HIDE DEF S, r1, r2, fix
<1>6. r1 \o fix \o r2 \in Seq(S)
  BY <1>3, <1>4, <1>5, Joined3
<1> QED  BY <1>6 DEF OnPath, r1, fix, r2, S, E

\* One path of the radio is set to the channel, the other is left alone.
LEMMA OnPathEffect ==
  ASSUME NEW center \in 0..255, NEW width \in 0..2,
         NEW ag \in ChannelFields, NEW ch \in ChannelFields,
         NEW f \in ChannelFields, NEW x, ag # ch
  PROVE  LET P == OnPath(center, width, ag, ch)
         IN /\ f = ag => After(P, f, x) = ModAg(center)
            /\ f = ch => After(P, f, x) = center
            /\ f # ag /\ f # ch => After(P, f, x) = x
<1> DEFINE S == SUBSET ChnlEntries
           r1 == RfPut(ag, ModAg(center))
           fix == FixSpur(center, width)
           r2 == RfPut(ch, center)
<1>1. /\ ag # "ccaOff" /\ ch # "ccaOff" /\ f # "ccaOff"
      /\ f \notin {"fifoClk", "adcClk", "adcBuf"}
  BY DEF ChannelFields
<1>2. \A y : /\ f = ag => After(r1, f, y) = ModAg(center)
             /\ f # ag => After(r1, f, y) = y
  BY <1>1, AfterRfPut
<1>3. \A y : /\ f = ch => After(r2, f, y) = center
             /\ f # ch => After(r2, f, y) = y
  BY <1>1, AfterRfPut
<1>4. \A y : After(fix, f, y) = y
  BY <1>1, FixSpurLeaves
<1>5. r1 \in Seq(S) /\ fix \in Seq(S) /\ r2 \in Seq(S)
  <2>1. /\ <<ag, ModAg(center)>> \in ChnlEntries
        /\ <<ch, center>> \in ChnlEntries
        /\ {"fifoClk", "adcClk", "adcBuf"} \X Word \subseteq ChnlEntries
        /\ ~board.cCut => {"ccaOff"} \X BOOLEAN \subseteq ChnlEntries
    <3>1. ModAg(center) \in Word /\ center \in Word
      BY WordsWritten
    <3> QED  BY <3>1 DEF ChnlEntries, CcaEntries
  <2>2. fix \in Seq(S)
    BY <2>1, FixSpurShape
  <2> QED  BY <1>1, <2>1, <2>2, RfPutShape
<1> HIDE DEF S, r1, r2, fix
<1>6. After(r1 \o fix \o r2, f, x) =
        After(r2, f, After(fix, f, After(r1, f, x)))
  BY <1>5, Joined3
<1>7. OnPath(center, width, ag, ch) = r1 \o fix \o r2
  BY DEF OnPath, r1, fix, r2
<1> QED  BY <1>2, <1>3, <1>4, <1>6, <1>7

\* phy_SwChnl8812 leaves the radio on the channel.
LEMMA SwChnlShape ==
  ASSUME NEW center \in 0..255, NEW width \in 0..2
  PROVE  /\ SwChnl(center, width) \in Seq(SUBSET ChnlEntries)
         /\ SwChnl(center, width) # <<>>
         /\ \A f \in ChannelFields : \A x :
              After(SwChnl(center, width), f, x) = ChannelTarget(center)[f]
<1> DEFINE S == SUBSET ChnlEntries
           area == Put({"fcArea"}, FcArea(center))
           onA == OnPath(center, width, "agA", "chA")
           onB == OnPath(center, width, "agB", "chB")
           P == SwChnl(center, width)
<1>1. ChannelFields = {"fcArea", "agA", "agB", "chA", "chB"}
  BY DEF ChannelFields
<1>2. area \in Seq(S) /\ area # <<>>
  <2>1. <<"fcArea", FcArea(center)>> \in ChnlEntries
    BY WordsWritten DEF ChnlEntries, ChannelFields
  <2>2. \A f \in {"fcArea"} : <<f, FcArea(center)>> \in ChnlEntries
    BY <2>1
  <2> QED  BY <2>2, PutShape
<1>3. \A f, x : After(area, f, x) = IF f = "fcArea" THEN FcArea(center) ELSE x
  BY AfterPut
<1>4. onA \in Seq(S) /\ onB \in Seq(S)
  BY <1>1, OnPathShape
<1>5. \A f \in ChannelFields : \A x :
        /\ f = "agA" => After(onA, f, x) = ModAg(center)
        /\ f = "chA" => After(onA, f, x) = center
        /\ f # "agA" /\ f # "chA" => After(onA, f, x) = x
  <2>1. "agA" \in ChannelFields /\ "chA" \in ChannelFields /\ "agA" # "chA"
    BY <1>1
  <2> QED  BY <2>1, OnPathEffect
<1>6. \A f \in ChannelFields : \A x :
        /\ f = "agB" => After(onB, f, x) = ModAg(center)
        /\ f = "chB" => After(onB, f, x) = center
        /\ f # "agB" /\ f # "chB" => After(onB, f, x) = x
  <2>1. "agB" \in ChannelFields /\ "chB" \in ChannelFields /\ "agB" # "chB"
    BY <1>1
  <2> QED  BY <2>1, OnPathEffect
<1> HIDE DEF S, area, onA, onB
<1>7. /\ area \o onA \o onB \in Seq(S) /\ area \o onA \o onB # <<>>
      /\ \A f, x : After(area \o onA \o onB, f, x) =
                     After(onB, f, After(onA, f, After(area, f, x)))
  BY <1>2, <1>4, Joined3
<1>8. P = area \o onA \o onB
  BY DEF SwChnl, area, onA, onB
<1> HIDE DEF P
<1>9. ASSUME NEW f \in ChannelFields, NEW x
      PROVE  After(P, f, x) = ChannelTarget(center)[f]
  <2>1. f \in {"fcArea", "agA", "agB", "chA", "chB"}
    BY <1>1
  <2>2. f = "fcArea" => After(P, f, x) = FcArea(center)
    BY <1>3, <1>5, <1>6, <1>7, <1>8
  <2>3. f = "agA" \/ f = "agB" => After(P, f, x) = ModAg(center)
    BY <1>3, <1>5, <1>6, <1>7, <1>8
  <2>4. f = "chA" \/ f = "chB" => After(P, f, x) = center
    BY <1>3, <1>5, <1>6, <1>7, <1>8
  <2> QED  BY <2>1, <2>2, <2>3, <2>4 DEF ChannelTarget
<1> QED  BY <1>7, <1>8, <1>9 DEF P, S

\* The entries of phy_PostSetBwMode8812.
LEMMA BwEntriesAre ==
  /\ \A f \in {"macBw", "dataSc", "rfMod", "adcClk", "adcBuf", "rfSc", "ccaSc",
               "l1Peak", "cckSystem", "bwA", "bwB", "fifoClk"}, v \in 0..255 :
       <<f, v>> \in BwEntries
  /\ {"fifoClk", "adcClk", "adcBuf"} \X Word \subseteq BwEntries
  /\ ~board.cCut => {"ccaOff"} \X BOOLEAN \subseteq BwEntries
<1>1. {"macBw", "dataSc", "rfMod", "adcClk", "adcBuf", "rfSc", "ccaSc",
       "l1Peak", "cckSystem", "bwA", "bwB", "fifoClk"} \subseteq
         Numbers \ (ChannelFields \cup {"pwed"})
  BY DEF Numbers, ChannelFields
<1> QED  BY <1>1, SmallWords DEF BwEntries, CcaEntries

\* phy_PostSetBwMode8812 sets the width, and lets the radio listen.
LEMMA PostSetBwShape ==
  ASSUME NEW center \in 0..255, NEW width \in 0..2, NEW sc80
  PROVE  LET P == PostSetBw(center, width, sc80)
         IN /\ P \in Seq(SUBSET BwEntries) /\ P # <<>>
            /\ \A f \in WidthFields : \A x :
                 After(P, f, x) = WidthTarget(center, width, sc80)[f]
            /\ ~board.cCut => \A x : After(P, "ccaOff", x) = Off
<1> DEFINE S == SUBSET BwEntries
           sc == SecondaryChnl(width, sc80)
           old == IF width = 2 THEN 1 ELSE 0
           sys == IF sc = 1 THEN 1 ELSE 0
           sA == Two("macBw", width, "dataSc", sc)
           sB == Two("rfMod", width, "adcClk", 2)
           none == <<>>
           a == <<sA>>
           b == <<sB>>
           c == Put({"adcBuf"}, old)
           d1 == Put({"rfSc"}, sc % 16)
           d2 == Put({"ccaSc"}, sc % 16)
           d12 == d1 \o d2
           d == IF width = 0 THEN none ELSE d12
           e == Put({"l1Peak"}, L1Peak(width))
           g1 == Put({"cckSystem"}, sys)
           g == IF width = 1 THEN g1 ELSE none
           h == FixSpur(center, width)
           r1 == RfPut("bwA", RfBw(width))
           r2 == RfPut("bwB", RfBw(width))
           P == PostSetBw(center, width, sc80)
           q4 == a \o b \o c \o d
           q7 == q4 \o e \o g \o h
<1>1. P = q7 \o r1 \o r2
  BY DEF PostSetBw, Two
<1>2. /\ sc \in 0..255 /\ sc % 16 \in 0..255 /\ old \in 0..255
      /\ sys \in 0..255 /\ width \in 0..255
      /\ RfBw(width) \in 0..255 /\ L1Peak(width) \in 0..255
  <2>1. sc \in 0..255
    BY WordsWritten
  <2>2. width = 0 \/ width = 1 \/ width = 2
    OBVIOUS
  <2>3. RfBw(width) \in 0..255 /\ L1Peak(width) \in 0..255
    BY <2>2 DEF RfBw, L1Peak
  <2> HIDE DEF sc
  <2>4. sc % 16 \in 0..255
    BY <2>1
  <2> QED  BY <2>1, <2>2, <2>3, <2>4
<1> HIDE DEF sc, old, sys
<1>3. /\ a \in Seq(S) /\ a # <<>> /\ b \in Seq(S)
      /\ \A f, x : After(a, f, x) = IF f = "macBw" THEN width
                                    ELSE IF f = "dataSc" THEN sc ELSE x
      /\ \A f, x : After(b, f, x) = IF f = "rfMod" THEN width
                                    ELSE IF f = "adcClk" THEN 2 ELSE x
  <2>1. sA \in S /\ sB \in S
    <3>1. /\ <<"macBw", width>> \in BwEntries /\ <<"dataSc", sc>> \in BwEntries
          /\ <<"rfMod", width>> \in BwEntries /\ <<"adcClk", 2>> \in BwEntries
      <4>1. \A v \in 0..255 :
              /\ <<"macBw", v>> \in BwEntries /\ <<"dataSc", v>> \in BwEntries
              /\ <<"rfMod", v>> \in BwEntries /\ <<"adcClk", v>> \in BwEntries
        BY BwEntriesAre
      <4>2. 2 \in 0..255
        OBVIOUS
      <4> QED  BY <1>2, <4>1, <4>2
    <3> HIDE DEF none, a, b, c, d1, d2, d12, d, e, g1, g, h, r1, r2, P, q4, q7
    <3> QED  BY <3>1 DEF Two
  <2>2. \A f, x : AfterStep(sA, f, x) = IF f = "macBw" THEN width
                                        ELSE IF f = "dataSc" THEN sc ELSE x
    BY AfterTwo
  <2>3. \A f, x : AfterStep(sB, f, x) = IF f = "rfMod" THEN width
                                        ELSE IF f = "adcClk" THEN 2 ELSE x
    BY AfterTwo
  <2> HIDE DEF S, sA, sB
  <2>4. a \in Seq(S) /\ a # <<>> /\ b \in Seq(S)
    BY <2>1
  <2>5. \A f, x : /\ After(a, f, x) = AfterStep(sA, f, x)
                  /\ After(b, f, x) = AfterStep(sB, f, x)
    BY AfterSingle
  <2> QED  BY <2>2, <2>3, <2>4, <2>5
<1>4. /\ c \in Seq(S) /\ d1 \in Seq(S) /\ d2 \in Seq(S)
      /\ e \in Seq(S) /\ g1 \in Seq(S) /\ none \in Seq(S)
  <2>1. \A f \in {"adcBuf", "rfSc", "ccaSc", "l1Peak", "cckSystem"},
           v \in 0..255 : Put({f}, v) \in Seq(S)
    BY BwEntriesAre, PutShape
  <2> HIDE DEF S
  <2>2. c \in Seq(S) /\ d1 \in Seq(S) /\ d2 \in Seq(S)
    BY <1>2, <2>1
  <2>3. e \in Seq(S) /\ g1 \in Seq(S)
    BY <1>2, <2>1
  <2>4. none \in Seq(S)
    BY EmptySeq
  <2> QED  BY <2>2, <2>3, <2>4
<1>5. \A f, x :
        /\ After(c, f, x) = IF f = "adcBuf" THEN old ELSE x
        /\ f # "rfSc" => After(d1, f, x) = x
        /\ f # "ccaSc" => After(d2, f, x) = x
        /\ After(e, f, x) = IF f = "l1Peak" THEN L1Peak(width) ELSE x
        /\ f # "cckSystem" => After(g1, f, x) = x
        /\ After(none, f, x) = x
  BY AfterPut, AfterNone
<1>6. h \in Seq(S)
  BY BwEntriesAre, FixSpurShape
<1>7. r1 \in Seq(S) /\ r2 \in Seq(S) /\ r1 # <<>>
  <2>1. <<"bwA", RfBw(width)>> \in BwEntries
          /\ <<"bwB", RfBw(width)>> \in BwEntries
    BY <1>2, BwEntriesAre
  <2> QED  BY <2>1, BwEntriesAre, RfPutShape
<1>8. \A f, x : f \notin {"fifoClk", "adcClk", "adcBuf"} => After(h, f, x) = x
  BY FixSpurLeaves
<1>9. /\ After(h, "adcClk", 2) = IF <<width, center>> \in Spur20 THEN 3 ELSE 2
      /\ After(h, "adcBuf", old) =
           IF board.cCut /\ <<width, center>> \in Spurs THEN 1 ELSE old
  BY FixSpurEffect DEF old
<1>10. \A f, x : f # "ccaOff" =>
         /\ After(r1, f, x) = IF f = "bwA" THEN RfBw(width) ELSE x
         /\ After(r2, f, x) = IF f = "bwB" THEN RfBw(width) ELSE x
  BY AfterRfPut
<1>11. ~board.cCut => \A x : After(r2, "ccaOff", x) = Off
  BY AfterRfPut
<1> HIDE DEF S, a, b, c, d1, d2, e, g1, none, h, r1, r2
<1>12. /\ d12 \in Seq(S)
       /\ \A f, x : After(d12, f, x) = After(d2, f, After(d1, f, x))
  BY <1>4, Joined
<1> HIDE DEF d12
<1>13. /\ d \in Seq(S) /\ g \in Seq(S)
       /\ \A f, x : f \notin {"rfSc", "ccaSc"} => After(d, f, x) = x
       /\ \A f, x : f # "cckSystem" => After(g, f, x) = x
  BY <1>4, <1>5, <1>12
<1> HIDE DEF d, g
<1>14. /\ q4 \in Seq(S) /\ q4 # <<>>
       /\ \A f, x : After(q4, f, x) =
            After(d, f, After(c, f, After(b, f, After(a, f, x))))
  BY <1>3, <1>4, <1>13, Joined4
<1> HIDE DEF q4
<1>15. /\ q7 \in Seq(S) /\ q7 # <<>>
       /\ \A f, x : After(q7, f, x) =
            After(h, f, After(g, f, After(e, f, After(q4, f, x))))
  BY <1>4, <1>6, <1>13, <1>14, Joined4
<1> HIDE DEF q7, P
<1>16. /\ P \in Seq(S) /\ P # <<>>
       /\ \A f, x :
            After(P, f, x) = After(r2, f, After(r1, f, After(q7, f, x)))
  BY <1>1, <1>7, <1>15, Joined3
<1>17. ASSUME NEW f \in WidthFields, NEW x
       PROVE  After(P, f, x) = WidthTarget(center, width, sc80)[f]
  <2>1. f \in {"macBw", "rfMod", "bwA", "bwB", "l1Peak", "dataSc", "adcClk",
               "adcBuf"}
    BY DEF WidthFields
  <2> DEFINE y1 == After(a, f, x)
             y2 == After(b, f, y1)
             y3 == After(c, f, y2)
             y4 == After(d, f, y3)
             y5 == After(e, f, y4)
             y6 == After(g, f, y5)
             y7 == After(h, f, y6)
             y8 == After(r1, f, y7)
             y9 == After(r2, f, y8)
  <2>2. After(P, f, x) = y9
    BY <1>14, <1>15, <1>16
  <2>3. /\ y1 = IF f = "macBw" THEN width ELSE IF f = "dataSc" THEN sc ELSE x
        /\ y2 = IF f = "rfMod" THEN width ELSE IF f = "adcClk" THEN 2 ELSE y1
        /\ y3 = IF f = "adcBuf" THEN old ELSE y2
        /\ y4 = y3
        /\ y5 = IF f = "l1Peak" THEN L1Peak(width) ELSE y4
        /\ y6 = y5
        /\ f \notin {"adcClk", "adcBuf"} => y7 = y6
        /\ y8 = IF f = "bwA" THEN RfBw(width) ELSE y7
        /\ y9 = IF f = "bwB" THEN RfBw(width) ELSE y8
    <3>1. y1 = IF f = "macBw" THEN width ELSE IF f = "dataSc" THEN sc ELSE x
      BY <1>3
    <3>2. y2 = IF f = "rfMod" THEN width ELSE IF f = "adcClk" THEN 2 ELSE y1
      BY <1>3
    <3>3. y3 = IF f = "adcBuf" THEN old ELSE y2
      BY <1>5
    <3>4. y4 = y3
      BY <1>13, <2>1
    <3>5. y5 = IF f = "l1Peak" THEN L1Peak(width) ELSE y4
      BY <1>5
    <3>6. y6 = y5
      BY <1>13, <2>1
    <3>7. f \notin {"adcClk", "adcBuf"} => y7 = y6
      BY <1>8, <2>1
    <3>8. y8 = IF f = "bwA" THEN RfBw(width) ELSE y7
      BY <1>10, <2>1
    <3>9. y9 = IF f = "bwB" THEN RfBw(width) ELSE y8
      BY <1>10, <2>1
    <3> HIDE DEF y1, y2, y3, y4, y5, y6, y7, y8, y9
    <3> QED  BY <3>1, <3>2, <3>3, <3>4, <3>5, <3>6, <3>7, <3>8, <3>9
  <2>7. y7 = After(h, f, y6)
    OBVIOUS
  <2> HIDE DEF y1, y2, y3, y4, y5, y6, y7, y8, y9
  <2>4. /\ f = "macBw" \/ f = "rfMod" => After(P, f, x) = width
        /\ f = "bwA" \/ f = "bwB" => After(P, f, x) = RfBw(width)
        /\ f = "l1Peak" => After(P, f, x) = L1Peak(width)
        /\ f = "dataSc" => After(P, f, x) = sc
    BY <2>2, <2>3
  <2>5. f = "adcClk" =>
          After(P, f, x) = IF <<width, center>> \in Spur20 THEN 3 ELSE 2
    BY <1>9, <2>2, <2>3, <2>7
  <2>6. f = "adcBuf" => After(P, f, x) =
          IF board.cCut /\ <<width, center>> \in Spurs THEN 1 ELSE old
    BY <1>9, <2>2, <2>3, <2>7
  <2> QED  BY <2>1, <2>4, <2>5, <2>6 DEF WidthTarget, old, sc
<1>18. ~board.cCut => \A x : After(P, "ccaOff", x) = Off
  BY <1>11, <1>16
<1> QED  BY <1>16, <1>17, <1>18 DEF P, S

\* The center of a channel is a byte; so is what set_channel_bwmode makes of
\* it.
LEMMA CenterIsByte ==
  ASSUME NEW channel \in Channels, NEW width \in Widths
  PROVE  /\ width \in 0..2
         /\ CenterCh(channel, width) \in 0..255
         /\ Offset80(channel, width) \in 0..2
<1>1. channel \in 1..177 /\ width \in 0..2
  BY RadioAssumption
<1>2. width = 0 => CenterCh(channel, width) = channel
  BY DEF CenterCh
<1>3. width = 1 => CenterCh(channel, width) = (channel - 2) % 256
  BY DEF CenterCh, Byte
<1>4. width = 2 => CenterCh(channel, width) \in 0..255
  <2> SUFFICES ASSUME width = 2  PROVE CenterCh(channel, width) \in 0..255
    OBVIOUS
  <2> DEFINE Fits(c) ==
               \E g \in Groups : channel \in g /\ {c - 6, c + 6} \subseteq g
  <2>1. CenterCh(channel, width) =
          IF \E g \in Groups : channel \in g
          THEN CHOOSE c \in 42..171 : Fits(c)
          ELSE IF channel <= 14 THEN 7 ELSE channel
    BY DEF CenterCh
  <2>2. ASSUME NEW g \in Groups
        PROVE  \E c \in 42..171 : {c - 6, c + 6} \subseteq g
    <3>1. CASE g = {36, 40, 44, 48}
      <4>1. 42 \in 42..171 /\ {42 - 6, 42 + 6} \subseteq g
        BY <3>1
      <4> QED  BY <4>1
    <3>2. CASE g = {52, 56, 60, 64}
      <4>1. 58 \in 42..171 /\ {58 - 6, 58 + 6} \subseteq g
        BY <3>2
      <4> QED  BY <4>1
    <3>3. CASE g = {100, 104, 108, 112}
      <4>1. 106 \in 42..171 /\ {106 - 6, 106 + 6} \subseteq g
        BY <3>3
      <4> QED  BY <4>1
    <3>4. CASE g = {116, 120, 124, 128}
      <4>1. 122 \in 42..171 /\ {122 - 6, 122 + 6} \subseteq g
        BY <3>4
      <4> QED  BY <4>1
    <3>5. CASE g = {132, 136, 140, 144}
      <4>1. 138 \in 42..171 /\ {138 - 6, 138 + 6} \subseteq g
        BY <3>5
      <4> QED  BY <4>1
    <3>6. CASE g = {149, 153, 157, 161}
      <4>1. 155 \in 42..171 /\ {155 - 6, 155 + 6} \subseteq g
        BY <3>6
      <4> QED  BY <4>1
    <3>7. CASE g = {165, 169, 173, 177}
      <4>1. 171 \in 42..171 /\ {171 - 6, 171 + 6} \subseteq g
        BY <3>7
      <4> QED  BY <4>1
    <3> QED  BY <3>1, <3>2, <3>3, <3>4, <3>5, <3>6, <3>7 DEF Groups
  <2>3. (\E g \in Groups : channel \in g) =>
          (CHOOSE c \in 42..171 : Fits(c)) \in 42..171
    <3>1. (\E g \in Groups : channel \in g) => \E c \in 42..171 : Fits(c)
      BY <2>2
    <3> HIDE DEF Fits
    <3> QED  BY <3>1
  <2> DEFINE c0 == CHOOSE c \in 42..171 : Fits(c)
             found == \E g \in Groups : channel \in g
  <2>4. /\ CenterCh(channel, width) =
             IF found THEN c0 ELSE IF channel <= 14 THEN 7 ELSE channel
        /\ found => c0 \in 42..171
    BY <2>1, <2>3
  <2> HIDE DEF c0, found
  <2> QED  BY <1>1, <2>4
<1>5. CenterCh(channel, width) \in 0..255
  <2>1. (channel - 2) % 256 \in 0..255
    BY <1>1
  <2> QED  BY <1>1, <1>2, <1>3, <1>4, <2>1
<1>6. Offset80(channel, width) \in 0..2
  BY DEF Offset80
<1> QED  BY <1>1, <1>5, <1>6

\* What a field may hold.
Holds(f, x) ==
  /\ f \in Numbers => x \in Word
  /\ f = "ccaOff" => x \in BOOLEAN
  /\ f \notin Numbers /\ f # "ccaOff" => x \in {"table", "2.4G", "5G"}

\* The programs keep the fields within what they may hold.
LEMMA EntriesAreTyped ==
  /\ \A e \in BandEntries : Holds(e[1], e[2])
  /\ \A e \in ChnlEntries : Holds(e[1], e[2])
  /\ \A e \in BwEntries : Holds(e[1], e[2])
<1>1. /\ BandFields \cap Numbers = {} /\ "ccaOff" \notin BandFields
      /\ "pwed" \in Numbers /\ "ccaOff" \notin Numbers
      /\ ChannelFields \cup {"fifoClk", "adcClk", "adcBuf"} \subseteq Numbers
  BY DEF BandFields, FrontEnd, Numbers, ChannelFields
<1>2. Bands \subseteq {"table", "2.4G", "5G"}
  BY DEF Bands
<1>3. ASSUME NEW e \in CcaEntries  PROVE Holds(e[1], e[2])
  <2>1. e[1] = "ccaOff" /\ e[2] \in BOOLEAN
    BY DEF CcaEntries
  <2> QED  BY <1>1, <2>1 DEF Holds
<1>4. ASSUME NEW f \in Numbers, NEW e \in {f} \X Word
      PROVE  Holds(e[1], e[2])
  <2>1. e[1] = f /\ e[2] \in Word
    OBVIOUS
  <2> QED  BY <1>1, <2>1 DEF Holds
<1>5. ASSUME NEW e \in BandEntries  PROVE Holds(e[1], e[2])
  <2>1. CASE e \in BandFields \X Bands
    <3>1. e[1] \in BandFields /\ e[2] \in Bands
      BY <2>1
    <3>2. e[1] \notin Numbers /\ e[1] # "ccaOff"
      BY <1>1, <3>1
    <3> QED  BY <1>2, <3>1, <3>2 DEF Holds
  <2>2. CASE e \in {"pwed"} \X Word
    BY <1>1, <1>4, <2>2
  <2> QED  BY <2>1, <2>2 DEF BandEntries
<1>6. ASSUME NEW e \in ChnlEntries  PROVE Holds(e[1], e[2])
  <2>1. CASE e \in CcaEntries
    BY <1>3, <2>1
  <2>2. CASE e \notin CcaEntries
    <3>1. e[1] \in Numbers /\ e \in {e[1]} \X Word
      BY <1>1, <2>2 DEF ChnlEntries
    <3> QED  BY <1>4, <3>1
  <2> QED  BY <2>1, <2>2
<1>7. ASSUME NEW e \in BwEntries  PROVE Holds(e[1], e[2])
  <2>1. CASE e \in CcaEntries
    BY <1>3, <2>1
  <2>2. CASE e \notin CcaEntries
    <3>1. e[1] \in Numbers /\ e \in {e[1]} \X Word
      BY <2>2 DEF BwEntries
    <3> QED  BY <1>4, <3>1
  <2> QED  BY <2>1, <2>2
<1> QED  BY <1>5, <1>6, <1>7

\* A step keeps the registers within what they may hold.
LEMMA WrittenTyped ==
  ASSUME NEW step, NEW r, NEW f \in DOMAIN r, Holds(f, r[f]),
         \A e \in step : Holds(e[1], e[2])
  PROVE  /\ Holds(f, Written(r, step)[f])
         /\ Written(r, step)[f] = AfterStep(step, f, r[f])
<1>1. Written(r, step)[f] = AfterStep(step, f, r[f])
  BY DEF Written, AfterStep, Touches
<1>2. CASE Touches(step, f)
  <2> DEFINE e == CHOOSE e \in step : e[1] = f
  <2>1. e \in step /\ e[1] = f
    BY <1>2 DEF Touches
  <2>2. AfterStep(step, f, r[f]) = e[2]
    BY <1>2 DEF AfterStep
  <2> HIDE DEF e
  <2> QED  BY <1>1, <2>1, <2>2
<1>3. CASE ~Touches(step, f)
  BY <1>1, <1>3 DEF AfterStep
<1> QED  BY <1>1, <1>2, <1>3

\* Which part writes which fields.
LEMMA PartsWrite ==
  /\ \A f \in ChannelFields : /\ \A e \in BandEntries : e[1] # f
                              /\ \A e \in BwEntries : e[1] # f
  /\ \A f \in BandFields : /\ \A e \in ChnlEntries : e[1] # f
                           /\ \A e \in BwEntries : e[1] # f
  /\ \A f \in WidthFields : \A e \in BandEntries : e[1] # f
  /\ \A e \in BandEntries : e[1] # "ccaOff"
  /\ board.cCut => /\ \A e \in ChnlEntries : e[1] # "ccaOff"
                   /\ \A e \in BwEntries : e[1] # "ccaOff"
<1>1. /\ \A f \in BandFields : f \notin Numbers /\ f # "ccaOff"
      /\ ChannelFields \subseteq Numbers /\ WidthFields \subseteq Numbers
      /\ "ccaOff" \notin Numbers
      /\ "pwed" \in Numbers \ (ChannelFields \cup WidthFields)
      /\ {"fifoClk", "adcClk", "adcBuf"} \subseteq Numbers
  BY DEF BandFields, FrontEnd, Numbers, ChannelFields, WidthFields
<1>2. \A e \in CcaEntries : e[1] = "ccaOff" /\ ~board.cCut
  BY DEF CcaEntries
<1>3. \A e \in BandEntries : e[1] \in BandFields \cup {"pwed"}
  BY DEF BandEntries
<1>4. \A e \in ChnlEntries :
        \/ e[1] \in ChannelFields \cup {"fifoClk", "adcClk", "adcBuf"}
        \/ e[1] = "ccaOff" /\ ~board.cCut
  BY <1>2 DEF ChnlEntries
<1>5. \A e \in BwEntries :
        \/ e[1] \in Numbers \ (ChannelFields \cup {"pwed"})
        \/ e[1] = "ccaOff" /\ ~board.cCut
  BY <1>2 DEF BwEntries
<1>6. ASSUME NEW f \in ChannelFields
      PROVE  /\ \A e \in BandEntries : e[1] # f
             /\ \A e \in BwEntries : e[1] # f
  BY <1>1, <1>3, <1>5
<1>7. ASSUME NEW f \in BandFields
      PROVE  /\ \A e \in ChnlEntries : e[1] # f
             /\ \A e \in BwEntries : e[1] # f
  BY <1>1, <1>4, <1>5
<1>8. \A f \in WidthFields : \A e \in BandEntries : e[1] # f
  BY <1>1, <1>3
<1>9. \A e \in BandEntries : e[1] # "ccaOff"
  BY <1>1, <1>3
<1>10. ASSUME board.cCut
       PROVE  /\ \A e \in ChnlEntries : e[1] # "ccaOff"
              /\ \A e \in BwEntries : e[1] # "ccaOff"
  BY <1>1, <1>4, <1>5, <1>10
<1> QED  BY <1>6, <1>7, <1>8, <1>9, <1>10

\* The type invariant's part about the registers, field by field.
LEMMA HoldsIsTyped ==
  ASSUME NEW r
  PROVE  (\A f \in Fields : Holds(f, r[f])) <=>
           /\ \A f \in Numbers : r[f] \in Word
           /\ \A f \in FrontEnd \cup {"cckCheck"} :
                r[f] \in {"table", "2.4G", "5G"}
           /\ r.ccaOff \in BOOLEAN
<1>1. /\ Fields = FrontEnd \cup {"cckCheck", "ccaOff"} \cup Numbers
      /\ "ccaOff" \notin Numbers
      /\ \A f \in FrontEnd \cup {"cckCheck"} : f \notin Numbers /\ f # "ccaOff"
  BY DEF Fields, FrontEnd, Numbers
<1>2. \A f \in Numbers : Holds(f, r[f]) <=> r[f] \in Word
  BY <1>1 DEF Holds
<1>3. \A f \in FrontEnd \cup {"cckCheck"} :
        Holds(f, r[f]) <=> r[f] \in {"table", "2.4G", "5G"}
  BY <1>1 DEF Holds
<1>4. Holds("ccaOff", r["ccaOff"]) <=> r.ccaOff \in BOOLEAN
  <2>1. r["ccaOff"] = r.ccaOff
    OBVIOUS
  <2> QED  BY <1>1, <2>1 DEF Holds
<1>5. (\A f \in Fields : Holds(f, r[f])) <=>
        /\ \A f \in Numbers : Holds(f, r[f])
        /\ \A f \in FrontEnd \cup {"cckCheck"} : Holds(f, r[f])
        /\ Holds("ccaOff", r["ccaOff"])
  BY <1>1
<1> QED  BY <1>2, <1>3, <1>4, <1>5

\* What a switch of bands leaves alone: what the other parts set.
LEMMA BandLeaves ==
  ASSUME NEW s \in Seq(SUBSET BandEntries), NEW x,
         NEW f \in ChannelFields \cup WidthFields \cup {"ccaOff"}
  PROVE  After(s, f, x) = x
<1>1. \A e \in BandEntries : e[1] # f
  BY PartsWrite
<1> QED  BY <1>1, StaysWithin

\* phy_SwChnl8812 leaves the band's fields alone, and on the C cut CCA.
LEMMA ChnlLeaves ==
  ASSUME NEW s \in Seq(SUBSET ChnlEntries), NEW x, NEW f,
         f \in BandFields \/ (f = "ccaOff" /\ board.cCut)
  PROVE  After(s, f, x) = x
<1>1. \A e \in ChnlEntries : e[1] # f
  BY PartsWrite
<1> QED  BY <1>1, StaysWithin

\* phy_PostSetBwMode8812 leaves those of the channel alone as well.
LEMMA BwLeaves ==
  ASSUME NEW s \in Seq(SUBSET BwEntries), NEW x, NEW f,
         f \in BandFields \cup ChannelFields \/ (f = "ccaOff" /\ board.cCut)
  PROVE  After(s, f, x) = x
<1>1. \A e \in BwEntries : e[1] # f
  BY PartsWrite
<1> QED  BY <1>1, StaysWithin

\* During a call, what no flag marks is as the caches say: no part of the
\* program is left that could change it.
LEMMA InCall ==
  call # None /\ ProgramTypeOK /\ Flags /\ OnItsWay => UnflaggedIsSet
<1> SUFFICES ASSUME call # None, ProgramTypeOK, Flags, OnItsWay
             PROVE  UnflaggedIsSet
  OBVIOUS
<1>1. /\ todo.band \in Seq(SUBSET BandEntries)
      /\ todo.chnl \in Seq(SUBSET ChnlEntries)
      /\ todo.bw \in Seq(SUBSET BwEntries)
  BY DEF ProgramTypeOK
<1>2. board.cCut => regs.ccaOff = FALSE
  <2> SUFFICES ASSUME board.cCut PROVE regs.ccaOff = FALSE
    OBVIOUS
  <2>1. \A x : /\ After(todo.band, "ccaOff", x) = x
               /\ After(todo.chnl, "ccaOff", x) = x
               /\ After(todo.bw, "ccaOff", x) = x
    BY <1>1, BandLeaves, ChnlLeaves, BwLeaves
  <2>2. Outcome("ccaOff") = regs.ccaOff
    BY <2>1 DEF Outcome
  <2> QED  BY <2>2 DEF OnItsWay
<1>3. ~drv.setBw => \A f : Outcome(f) = regs[f]
  <2>1. ~drv.setBw => todo.band = <<>> /\ todo.chnl = <<>> /\ todo.bw = <<>>
    BY DEF Flags
  <2> QED  BY <2>1, AfterNone DEF Outcome
<1>4. Begun /\ ~drv.sw =>
        \A f \in ChannelFields \cup {"cckCheck"} : Outcome(f) = regs[f]
  <2>1. Begun /\ ~drv.sw => todo.band = <<>> /\ todo.chnl = <<>>
    BY DEF Flags
  <2>2. \A f \in ChannelFields \cup {"cckCheck"} : \A x :
          After(todo.bw, f, x) = x
    <3>1. "cckCheck" \in BandFields
      BY DEF BandFields
    <3> QED  BY <1>1, <3>1, BwLeaves
  <2> QED  BY <2>1, <2>2, AfterNone DEF Outcome
<1>5. board.cCut \/ ~drv.setBw => ~regs.ccaOff
  <2>1. ~drv.setBw => regs.ccaOff = FALSE
    BY <1>3 DEF OnItsWay
  <2> QED  BY <1>2, <2>1
<1>6. ASSUME Begun, ~drv.sw, drv.chan # Forgotten
      PROVE  /\ \A f \in ChannelFields : regs[f] = ChannelTarget(drv.chan)[f]
             /\ regs.cckCheck = BandOf(drv.chan)
  BY <1>4, <1>6 DEF OnItsWay
<1>7. ASSUME Begun, ~drv.setBw
      PROVE  \A f \in WidthFields :
               regs[f] = WidthTarget(drv.chan, drv.bw, drv.sc80)[f]
  BY <1>3, <1>7 DEF OnItsWay
<1> QED  BY <1>5, <1>6, <1>7 DEF UnflaggedIsSet

\* What a step does to the registers, and what it leaves to be done.
LEMMA StepProgress ==
  ASSUME RadioInv, Step
  PROVE  /\ call # None
         /\ ProgramTypeOK'
         /\ DOMAIN regs' = Fields /\ \A f \in Fields : Holds(f, regs'[f])
         /\ \A f \in Fields : Outcome(f)' = Outcome(f)
<1> DEFINE s == todo[Part]
<1>1. /\ todo.band \in Seq(SUBSET BandEntries)
      /\ todo.chnl \in Seq(SUBSET ChnlEntries)
      /\ todo.bw \in Seq(SUBSET BwEntries)
      /\ todo.power \in Seq({{}})
      /\ todo = [band |-> todo.band, chnl |-> todo.chnl, bw |-> todo.bw,
                 power |-> todo.power]
  BY DEF RadioInv, ProgramTypeOK
<1>2. call # None
  BY DEF RadioInv, Flags, Step
<1>3. /\ DOMAIN regs = Fields
      /\ \A f \in Fields : Holds(f, regs[f])
  <2>1. /\ DOMAIN regs = Fields
        /\ \A f \in Numbers : regs[f] \in Word
        /\ \A f \in FrontEnd \cup {"cckCheck"} :
             regs[f] \in {"table", "2.4G", "5G"}
        /\ regs.ccaOff \in BOOLEAN
    BY DEF RadioInv, RadioTypeOK
  <2> HIDE DEF s
  <2> QED  BY <2>1, HoldsIsTyped
<1>4. /\ board' = board /\ call' = call /\ app' = app
      /\ regs' = Written(regs, Head(s))
      /\ todo' = [todo EXCEPT ![Part] = Tail(@)]
  BY DEF Step
<1>5. ChnlEntries' = ChnlEntries /\ BwEntries' = BwEntries
  BY <1>4 DEF ChnlEntries, BwEntries, CcaEntries
<1>6. DOMAIN regs' = Fields
  BY <1>3, <1>4 DEF Written
<1>7. ASSUME \A e \in Head(s) : Holds(e[1], e[2])
      PROVE  \A f \in Fields : /\ Holds(f, regs'[f])
                               /\ regs'[f] = AfterStep(Head(s), f, regs[f])
  BY <1>3, <1>4, <1>7, WrittenTyped
<1>8. CASE todo.band # <<>>
  <2>1. Part = "band" /\ s = todo.band
    BY <1>8 DEF Part
  <2>2. Tail(s) \in Seq(SUBSET BandEntries) /\ Head(s) \in SUBSET BandEntries
    BY <1>1, <1>8, <2>1, AfterTail
  <2>3. /\ todo'.band = Tail(s) /\ todo'.chnl = todo.chnl
        /\ todo'.bw = todo.bw /\ todo'.power = todo.power
        /\ todo' = [band |-> todo'.band, chnl |-> todo'.chnl, bw |-> todo'.bw,
                    power |-> todo'.power]
    BY <1>1, <1>4, <2>1
  <2>4. \A f \in Fields : /\ Holds(f, regs'[f])
                          /\ regs'[f] = AfterStep(Head(s), f, regs[f])
    BY <1>7, <2>2, EntriesAreTyped
  <2>5. \A f \in Fields : After(todo'.band, f, regs'[f]) =
                            After(todo.band, f, regs[f])
    BY <1>1, <1>8, <2>1, <2>3, <2>4, AfterTail
  <2>6. ProgramTypeOK'
    BY <1>1, <1>4, <1>5, <2>2, <2>3 DEF RadioInv, ProgramTypeOK
  <2> QED  BY <1>2, <1>6, <2>3, <2>4, <2>5, <2>6 DEF Outcome
<1>9. CASE todo.band = <<>> /\ todo.chnl # <<>>
  <2>1. Part = "chnl" /\ s = todo.chnl
    BY <1>9 DEF Part
  <2>2. Tail(s) \in Seq(SUBSET ChnlEntries) /\ Head(s) \in SUBSET ChnlEntries
    BY <1>1, <1>9, <2>1, AfterTail
  <2>3. /\ todo'.band = todo.band /\ todo'.chnl = Tail(s)
        /\ todo'.bw = todo.bw /\ todo'.power = todo.power
        /\ todo' = [band |-> todo'.band, chnl |-> todo'.chnl, bw |-> todo'.bw,
                    power |-> todo'.power]
    BY <1>1, <1>4, <2>1
  <2>4. \A f \in Fields : /\ Holds(f, regs'[f])
                          /\ regs'[f] = AfterStep(Head(s), f, regs[f])
    BY <1>7, <2>2, EntriesAreTyped
  <2>5. \A f \in Fields :
          After(todo'.chnl, f, After(todo'.band, f, regs'[f])) =
            After(todo.chnl, f, After(todo.band, f, regs[f]))
    BY <1>1, <1>9, <2>1, <2>3, <2>4, AfterTail, AfterNone
  <2>6. ProgramTypeOK'
    BY <1>1, <1>4, <1>5, <2>2, <2>3 DEF RadioInv, ProgramTypeOK
  <2> QED  BY <1>2, <1>6, <2>3, <2>4, <2>5, <2>6 DEF Outcome
<1>10. CASE todo.band = <<>> /\ todo.chnl = <<>> /\ todo.bw # <<>>
  <2>1. Part = "bw" /\ s = todo.bw
    BY <1>10 DEF Part
  <2>2. Tail(s) \in Seq(SUBSET BwEntries) /\ Head(s) \in SUBSET BwEntries
    BY <1>1, <1>10, <2>1, AfterTail
  <2>3. /\ todo'.band = todo.band /\ todo'.chnl = todo.chnl
        /\ todo'.bw = Tail(s) /\ todo'.power = todo.power
        /\ todo' = [band |-> todo'.band, chnl |-> todo'.chnl, bw |-> todo'.bw,
                    power |-> todo'.power]
    BY <1>1, <1>4, <2>1
  <2>4. \A f \in Fields : /\ Holds(f, regs'[f])
                          /\ regs'[f] = AfterStep(Head(s), f, regs[f])
    BY <1>7, <2>2, EntriesAreTyped
  <2>5. \A f \in Fields : After(todo'.bw, f, regs'[f]) =
                            After(todo.bw, f, regs[f])
    BY <1>1, <1>10, <2>1, <2>3, <2>4, AfterTail
  <2>6. ProgramTypeOK'
    BY <1>1, <1>4, <1>5, <2>2, <2>3 DEF RadioInv, ProgramTypeOK
  <2>7. \A f, x : After(todo.chnl, f, After(todo.band, f, x)) = x
    BY <1>10, AfterNone
  <2> QED  BY <1>2, <1>6, <2>3, <2>4, <2>5, <2>6, <2>7 DEF Outcome
<1>11. CASE todo.band = <<>> /\ todo.chnl = <<>> /\ todo.bw = <<>>
  <2>1. Part = "power" /\ s = todo.power /\ s # <<>>
    BY <1>1, <1>4, <1>11 DEF Part, Step, Idle
  <2>2. Tail(s) \in Seq({{}}) /\ Head(s) = {}
    BY <1>1, <2>1, AfterTail
  <2>3. /\ todo'.band = todo.band /\ todo'.chnl = todo.chnl
        /\ todo'.bw = todo.bw /\ todo'.power = Tail(s)
        /\ todo' = [band |-> todo'.band, chnl |-> todo'.chnl, bw |-> todo'.bw,
                    power |-> todo'.power]
    BY <1>1, <1>4, <2>1
  <2>4. \A f \in Fields : Holds(f, regs'[f]) /\ regs'[f] = regs[f]
    BY <1>7, <2>2 DEF AfterStep, Touches
  <2>6. ProgramTypeOK'
    BY <1>1, <1>4, <1>5, <2>2, <2>3 DEF RadioInv, ProgramTypeOK
  <2> QED  BY <1>2, <1>6, <2>3, <2>4, <2>6 DEF Outcome
<1> QED  BY <1>8, <1>9, <1>10, <1>11

\* The last step of a sequence.
LEMMA LastStep ==
  ASSUME NEW S, NEW s \in Seq(S), s # <<>>
  PROVE  /\ Tail(s) = <<>> <=> Len(s) = 1
         /\ Len(s) > 1 <=> Tail(s) # <<>>
<1>1. Len(s) \in Nat \ {0}
  BY EmptySeq
<1>2. Tail(s) \in Seq(S) /\ Len(Tail(s)) = Len(s) - 1
  BY HeadTailProperties
<1>3. Tail(s) = <<>> <=> Len(Tail(s)) = 0
  BY <1>2, EmptySeq
<1> QED  BY <1>1, <1>2, <1>3

\* The part a step is of, its flag and the mark of a torn switch.
LEMMA StepParts ==
  ASSUME RadioInv, Step
  PROVE  \/ /\ todo.band # <<>> /\ todo'.band = Tail(todo.band)
            /\ todo'.chnl = todo.chnl /\ todo'.bw = todo.bw
            /\ drv'.sw = drv.sw /\ drv'.setBw = drv.setBw
            /\ torn' \in BOOLEAN /\ (torn' <=> todo'.band # <<>>)
         \/ /\ todo.band = <<>> /\ todo'.band = <<>> /\ todo.chnl # <<>>
            /\ todo'.chnl = Tail(todo.chnl) /\ todo'.bw = todo.bw
            /\ drv'.sw = (drv.sw /\ todo'.chnl # <<>>)
            /\ drv'.setBw = drv.setBw /\ torn' = torn
         \/ /\ todo.band = <<>> /\ todo'.band = <<>>
            /\ todo.chnl = <<>> /\ todo'.chnl = <<>> /\ todo.bw # <<>>
            /\ todo'.bw = Tail(todo.bw)
            /\ drv'.setBw = (drv.setBw /\ todo'.bw # <<>>)
            /\ drv'.sw = drv.sw /\ torn' = torn
         \/ /\ todo.band = <<>> /\ todo'.band = <<>>
            /\ todo.chnl = <<>> /\ todo'.chnl = <<>>
            /\ todo.bw = <<>> /\ todo'.bw = <<>>
            /\ drv'.sw = drv.sw /\ drv'.setBw = drv.setBw /\ torn' = torn
<1>1. /\ todo.band \in Seq(SUBSET BandEntries)
      /\ todo.chnl \in Seq(SUBSET ChnlEntries)
      /\ todo.bw \in Seq(SUBSET BwEntries)
      /\ todo = [band |-> todo.band, chnl |-> todo.chnl, bw |-> todo.bw,
                 power |-> todo.power]
  BY DEF RadioInv, ProgramTypeOK
<1>2. drv.sw \in BOOLEAN /\ drv.setBw \in BOOLEAN
      /\ drv = [bwInit |-> drv.bwInit, sw |-> drv.sw, setBw |-> drv.setBw,
                chan |-> drv.chan, index |-> drv.index, bw |-> drv.bw,
                sc80 |-> drv.sc80]
  BY DEF RadioInv, RadioTypeOK
<1>3. /\ drv'.sw = (drv.sw /\ ~(Part = "chnl" /\ Len(todo.chnl) = 1))
      /\ drv'.setBw = (drv.setBw /\ ~(Part = "bw" /\ Len(todo.bw) = 1))
  BY <1>2 DEF Step
<1>4. /\ todo' = [todo EXCEPT ![Part] = Tail(@)]
      /\ torn' = IF Part = "band" THEN Len(todo.band) > 1 ELSE torn
  BY DEF Step
<1>5. CASE todo.band # <<>>
  <2>1. Part = "band"
    BY <1>5 DEF Part
  <2>2. /\ todo'.band = Tail(todo.band) /\ todo'.chnl = todo.chnl
        /\ todo'.bw = todo.bw
    BY <1>1, <1>4, <2>1
  <2>3. torn' \in BOOLEAN /\ (torn' <=> todo'.band # <<>>)
    <3> DEFINE left == Len(todo.band) > 1
    <3>1. left \in BOOLEAN /\ (left <=> todo'.band # <<>>)
      <4>1. left <=> todo'.band # <<>>
        BY <1>1, <1>5, <2>2, LastStep
      <4>2. left \in BOOLEAN
        OBVIOUS
      <4> HIDE DEF left
      <4> QED  BY <4>1, <4>2
    <3> HIDE DEF left
    <3>2. torn' = left
      BY <1>4, <2>1 DEF left
    <3> QED  BY <3>1, <3>2
  <2>4. drv'.sw = drv.sw /\ drv'.setBw = drv.setBw
    BY <1>2, <1>3, <2>1
  <2> QED  BY <1>5, <2>2, <2>3, <2>4
<1>6. CASE todo.band = <<>> /\ todo.chnl # <<>>
  <2>1. Part = "chnl"
    BY <1>6 DEF Part
  <2>2. /\ todo'.band = todo.band /\ todo'.chnl = Tail(todo.chnl)
        /\ todo'.bw = todo.bw
    BY <1>1, <1>4, <2>1
  <2>3. Len(todo.chnl) = 1 <=> todo'.chnl = <<>>
    BY <1>1, <1>6, <2>2, LastStep
  <2>4. /\ drv'.sw = (drv.sw /\ todo'.chnl # <<>>)
        /\ drv'.setBw = drv.setBw
    BY <1>2, <1>3, <2>1, <2>3
  <2>5. torn' = torn
    BY <1>4, <2>1
  <2> QED  BY <1>6, <2>2, <2>4, <2>5
<1>7. CASE todo.band = <<>> /\ todo.chnl = <<>> /\ todo.bw # <<>>
  <2>1. Part = "bw"
    BY <1>7 DEF Part
  <2>2. /\ todo'.band = todo.band /\ todo'.chnl = todo.chnl
        /\ todo'.bw = Tail(todo.bw)
    BY <1>1, <1>4, <2>1
  <2>3. Len(todo.bw) = 1 <=> todo'.bw = <<>>
    BY <1>1, <1>7, <2>2, LastStep
  <2>4. /\ drv'.setBw = (drv.setBw /\ todo'.bw # <<>>)
        /\ drv'.sw = drv.sw
    BY <1>2, <1>3, <2>1, <2>3
  <2>5. torn' = torn
    BY <1>4, <2>1
  <2> QED  BY <1>7, <2>2, <2>4, <2>5
<1>8. CASE todo.band = <<>> /\ todo.chnl = <<>> /\ todo.bw = <<>>
  <2>1. Part = "power"
    BY <1>8 DEF Part
  <2>2. /\ todo'.band = todo.band /\ todo'.chnl = todo.chnl
        /\ todo'.bw = todo.bw
    BY <1>1, <1>4, <2>1
  <2>3. /\ drv'.sw = drv.sw /\ drv'.setBw = drv.setBw /\ torn' = torn
    BY <1>2, <1>3, <1>4, <2>1
  <2> QED  BY <1>8, <2>2, <2>3
<1> QED  BY <1>5, <1>6, <1>7, <1>8

\* A step of a program keeps the invariant.
LEMMA StepKeeps ==
  ASSUME RadioInv, Step
  PROVE  RadioInv'
<1>1. /\ call # None
      /\ ProgramTypeOK'
      /\ DOMAIN regs' = Fields /\ \A f \in Fields : Holds(f, regs'[f])
      /\ \A f \in Fields : Outcome(f)' = Outcome(f)
  BY StepProgress
<1>2. /\ board' = board /\ call' = call /\ app' = app /\ last' = last
      /\ faults' = faults
      /\ drv'.chan = drv.chan /\ drv'.index = drv.index /\ drv'.bw = drv.bw
      /\ drv'.sc80 = drv.sc80 /\ drv'.bwInit = drv.bwInit
      /\ drv' \in [bwInit : BOOLEAN, sw : BOOLEAN, setBw : BOOLEAN,
                   chan : 0..255, index : 0..255, bw : 0..255, sc80 : 0..255]
  <2>1. drv \in [bwInit : BOOLEAN, sw : BOOLEAN, setBw : BOOLEAN,
                 chan : 0..255, index : 0..255, bw : 0..255, sc80 : 0..255]
    BY DEF RadioInv, RadioTypeOK
  <2>2. /\ board' = board /\ call' = call /\ app' = app /\ last' = last
        /\ faults' = faults
    BY DEF Step
  <2>3. \E u, v \in BOOLEAN : drv' = [drv EXCEPT !.sw = u, !.setBw = v]
    BY <2>1 DEF Step
  <2> QED  BY <2>1, <2>2, <2>3
<1>3. RadioTypeOK'
  <2>1. torn' \in BOOLEAN
    <3>1. torn \in BOOLEAN
      BY DEF RadioInv, RadioTypeOK
    <3> QED  BY <3>1, StepParts
  <2>2. DOMAIN todo' = DOMAIN Idle
    BY <1>1 DEF ProgramTypeOK, Idle
  <2>3. /\ \A f \in Numbers : regs'[f] \in Word
        /\ \A f \in FrontEnd \cup {"cckCheck"} :
             regs'[f] \in {"table", "2.4G", "5G"}
        /\ regs'.ccaOff \in BOOLEAN
    BY <1>1, HoldsIsTyped
  <2>4. /\ board' \in Boards
        /\ call' # None => call'.by \in {"hal", "mlme", "session"}
        /\ app' \in [up : BOOLEAN, channel : 0..177, width : 0..2]
        /\ last' \in (Channels \X Widths) \cup {None}
        /\ faults' \in 0..MaxFaults
    BY <1>2 DEF RadioInv, RadioTypeOK
  <2> QED  BY <1>1, <1>2, <2>1, <2>2, <2>3, <2>4 DEF RadioTypeOK
<1>4. Begun' = Begun
  BY <1>2 DEF Begun
<1>5. /\ todo.band \in Seq(SUBSET BandEntries)
      /\ todo.chnl \in Seq(SUBSET ChnlEntries)
      /\ todo.bw \in Seq(SUBSET BwEntries)
      /\ todo = [band |-> todo.band, chnl |-> todo.chnl, bw |-> todo.bw,
                 power |-> todo.power]
  BY DEF RadioInv, ProgramTypeOK
<1>7. Flags'
  <2>1. /\ drv.sw => drv.setBw
        /\ todo.band # <<>> => drv.setBw /\ (Begun => drv.sw)
        /\ drv.sw <=> todo.chnl # <<>>
        /\ drv.setBw <=> todo.bw # <<>>
        /\ drv.bwInit => drv.index = drv.chan
        /\ drv.bwInit <=> (app.up \/ call # None)
        /\ app.up /\ call # None => call.by = "session"
    BY <1>1 DEF RadioInv, Flags
  <2>2. /\ drv'.sw => drv'.setBw
        /\ todo'.band # <<>> => drv'.setBw /\ (Begun => drv'.sw)
        /\ drv'.sw <=> todo'.chnl # <<>>
        /\ drv'.setBw <=> todo'.bw # <<>>
    BY <2>1, StepParts
  <2> QED  BY <1>1, <1>2, <1>4, <2>1, <2>2 DEF Flags
<1>8. Caches'
  BY <1>1, <1>2 DEF RadioInv, Caches, CachesAre
<1>9. OnItsWay'
  <2>1. ChannelFields \cup WidthFields \cup {"ccaOff", "cckCheck"}
          \subseteq Fields
    BY DEF ChannelFields, WidthFields, Fields, Numbers
  <2>2. WidthTarget(drv.chan, drv.bw, drv.sc80)' =
          WidthTarget(drv.chan, drv.bw, drv.sc80)
    BY <1>2 DEF WidthTarget
  <2>3. ChannelTarget(drv.chan)' = ChannelTarget(drv.chan)
    BY <1>2
  <2>4. Outcome("ccaOff")' = FALSE
    BY <1>1, <2>1 DEF RadioInv, OnItsWay
  <2>5. ASSUME Begun', drv'.chan # Forgotten
        PROVE  /\ \A f \in ChannelFields :
                    Outcome(f)' = (ChannelTarget(drv.chan)[f])'
               /\ Outcome("cckCheck")' = BandOf(drv.chan)'
    BY <1>1, <1>2, <1>4, <2>1, <2>3, <2>5 DEF RadioInv, OnItsWay
  <2>6. ASSUME Begun'
        PROVE  \A f \in WidthFields :
                 Outcome(f)' = (WidthTarget(drv.chan, drv.bw, drv.sc80)[f])'
    BY <1>1, <1>2, <1>4, <2>1, <2>2, <2>6 DEF RadioInv, OnItsWay
  <2> QED  BY <2>4, <2>5, <2>6 DEF OnItsWay
<1>10. UnflaggedIsSet'
  <2>1. (call # None)'
    BY <1>1, <1>2
  <2> QED  BY <1>1, <1>7, <1>9, <2>1, InCall, PTL
<1>11. BandIsWhole'
  <2>1. BandFields \subseteq Fields /\ BandFields = FrontEnd \cup {"cckCheck"}
    BY DEF BandFields, Fields
  <2>2. \A f \in Fields : Outcome(f)' =
          After(todo'.bw, f, After(todo'.chnl, f,
            After(todo'.band, f, regs'[f])))
    BY DEF Outcome
  <2>3. /\ todo'.chnl \in Seq(SUBSET ChnlEntries)
        /\ todo'.bw \in Seq(SUBSET BwEntries)
    <3>1. ChnlEntries' = ChnlEntries /\ BwEntries' = BwEntries
      BY <1>2 DEF ChnlEntries, BwEntries, CcaEntries
    <3> QED  BY <1>1, <3>1 DEF ProgramTypeOK
  <2>4. \A f \in BandFields : After(todo'.band, f, regs'[f]) =
                              After(todo.band, f, regs[f])
    <3> TAKE f \in BandFields
    <3>1. \A s \in Seq(SUBSET ChnlEntries) : \A x : After(s, f, x) = x
      BY ChnlLeaves
    <3>2. \A s \in Seq(SUBSET BwEntries) : \A x : After(s, f, x) = x
      BY BwLeaves
    <3>3. Outcome(f) = After(todo.band, f, regs[f])
      BY <1>5, <3>1, <3>2 DEF Outcome
    <3>4. Outcome(f)' = After(todo'.band, f, regs'[f])
      <4> DEFINE y == After(todo'.band, f, regs'[f])
      <4>1. Outcome(f)' = After(todo'.bw, f, After(todo'.chnl, f, y))
        BY DEF Outcome
      <4> HIDE DEF y
      <4>2. After(todo'.chnl, f, y) = y /\ After(todo'.bw, f, y) = y
        BY <2>3, <3>1, <3>2
      <4> QED  BY <4>1, <4>2 DEF y
    <3> QED  BY <1>1, <2>1, <3>3, <3>4
  <2>5. todo'.band # <<>> =>
          \E b \in Bands : \A f \in BandFields :
            After(todo'.band, f, regs'[f]) = b
    <3>1. todo'.band # <<>> => todo.band # <<>>
      BY StepParts
    <3> QED  BY <2>4, <3>1 DEF RadioInv, BandIsWhole
  <2>6. ~torn' => \A f \in FrontEnd : regs'[f] = regs'.cckCheck
    <3>1. SUFFICES ASSUME ~torn'
                   PROVE  \A f \in FrontEnd : regs'[f] = regs'["cckCheck"]
      OBVIOUS
    <3>2. todo'.band = <<>>
      BY <3>1, StepParts DEF RadioInv, BandIsWhole
    <3>3. \A f \in BandFields : regs'[f] = After(todo.band, f, regs[f])
      BY <2>4, <3>2, AfterNone
    <3>4. CASE todo.band # <<>>
      BY <2>1, <3>3, <3>4 DEF RadioInv, BandIsWhole
    <3>5. CASE todo.band = <<>>
      <4>1. ~torn
        BY <3>1, <3>5, StepParts
      <4>2. \A f \in FrontEnd : regs[f] = regs["cckCheck"]
        BY <4>1 DEF RadioInv, BandIsWhole
      <4> QED  BY <2>1, <3>3, <3>5, <4>2, AfterNone
    <3> QED  BY <3>4, <3>5
  <2> QED  BY <2>5, <2>6 DEF BandIsWhole
<1> QED  BY <1>1, <1>3, <1>7, <1>8, <1>9, <1>10, <1>11 DEF RadioInv

\* The transmit power writes nothing the model has.
LEMMA TxPowerShape == TxPower \in Seq({{}})
<1> DEFINE p == Put({}, 0)
           S == SUBSET {}
<1>1. p \in Seq(S)
  BY PutShape
<1>2. S = {{}}
  OBVIOUS
<1> HIDE DEF p, S
<1>3. p \o p \in Seq(S)
  BY <1>1, Joined
<1> QED  BY <1>2, <1>3 DEF TxPower, p

\* PHY_HandleSwChnlAndSetBW8812: flags, caches and program go together.
HandleDoes(d, center, width, sc80, before, switch) ==
  /\ drv'.sw \in BOOLEAN /\ (drv'.sw <=> d.sw \/ d.chan # center)
  /\ drv'.setBw \in BOOLEAN
  /\ drv'.setBw <=> \/ d.setBw \/ ~d.bwInit
                    \/ d.bw # width \/ d.sc80 # sc80 \/ d.index # center
  /\ drv' = [bwInit |-> TRUE, sw |-> drv'.sw, setBw |-> drv'.setBw,
             chan |-> center, index |-> center, bw |-> width,
             sc80 |-> sc80]
  /\ todo' = [band |-> todo'.band, chnl |-> todo'.chnl,
              bw |-> todo'.bw, power |-> todo'.power]
  /\ drv'.sw => todo'.band = before \o switch
  /\ ~drv'.sw => todo'.band = before
  /\ drv'.sw => todo'.chnl = SwChnl(center, width)
  /\ ~drv'.sw => todo'.chnl = <<>>
  /\ drv'.setBw => todo'.bw = PostSetBw(center, width, sc80)
  /\ ~drv'.setBw => todo'.bw = <<>>
  /\ todo'.power \in Seq({{}})
  /\ ~drv'.sw /\ ~drv'.setBw => todo'.power = <<>>

\* That is what PHY_HandleSwChnlAndSetBW8812 does.
LEMMA HandleEffect ==
  ASSUME NEW d, NEW center, NEW width, NEW sc80, NEW before, NEW switch,
         d.sw \in BOOLEAN, d.setBw \in BOOLEAN,
         before \in Seq(SUBSET BandEntries),
         Handle(d, center, width, sc80, before, switch)
  PROVE  HandleDoes(d, center, width, sc80, before, switch)
<1> DEFINE sw == d.sw \/ d.chan # center
           setBw == d.setBw \/ ~d.bwInit \/ d.bw # width \/ d.sc80 # sc80
                      \/ d.index # center
           band == before \o (IF sw THEN switch ELSE <<>>)
           chnl == IF sw THEN SwChnl(center, width) ELSE <<>>
           bw == IF setBw THEN PostSetBw(center, width, sc80) ELSE <<>>
           p == TxPower
<1>1. /\ drv' = [bwInit |-> TRUE, sw |-> sw, setBw |-> setBw, chan |-> center,
                 index |-> center, bw |-> width, sc80 |-> sc80]
      /\ todo' = IF ~sw /\ ~setBw THEN [Idle EXCEPT !.band = before]
                 ELSE [band |-> band, chnl |-> chnl, bw |-> bw, power |-> p]
  BY DEF Handle
<1>2. /\ sw \in BOOLEAN /\ setBw \in BOOLEAN
  OBVIOUS
<1>3. before \o <<>> = before
  BY ConcatEmptySeq
<1>4. /\ sw => band = before \o switch
      /\ ~sw => band = before
      /\ sw => chnl = SwChnl(center, width)
      /\ ~sw => chnl = <<>>
      /\ setBw => bw = PostSetBw(center, width, sc80)
      /\ ~setBw => bw = <<>>
  BY <1>3
<1>5. p \in Seq({{}}) /\ <<>> \in Seq({{}})
  BY TxPowerShape, EmptySeq
<1>6. /\ drv'.sw \in BOOLEAN /\ (drv'.sw <=> d.sw \/ d.chan # center)
      /\ drv'.setBw \in BOOLEAN
      /\ drv'.setBw <=> \/ d.setBw \/ ~d.bwInit
                        \/ d.bw # width \/ d.sc80 # sc80 \/ d.index # center
  BY <1>1, <1>2
<1>7. (drv'.sw <=> sw) /\ (drv'.setBw <=> setBw)
  BY <1>1, <1>2
<1>8. drv' = [bwInit |-> TRUE, sw |-> drv'.sw, setBw |-> drv'.setBw,
              chan |-> center, index |-> center, bw |-> width, sc80 |-> sc80]
  BY <1>1
<1> HIDE DEF sw, setBw, band, chnl, bw, p
<1>9. CASE ~sw /\ ~setBw
  <2>1. todo' = [band |-> before, chnl |-> <<>>, bw |-> <<>>, power |-> <<>>]
    BY <1>1, <1>9 DEF Idle
  <2> QED  BY <1>5, <1>6, <1>7, <1>8, <1>9, <2>1 DEF HandleDoes
<1>10. CASE sw \/ setBw
  <2>1. todo' = [band |-> band, chnl |-> chnl, bw |-> bw, power |-> p]
    BY <1>1, <1>10
  <2> QED  BY <1>4, <1>5, <1>6, <1>7, <1>8, <1>10, <2>1
           DEF HandleDoes
<1> QED  BY <1>9, <1>10

\* Where the program of a call leads, part by part.
ProgramLeads(center, width, sc80, before) ==
  /\ todo' \in [band : Seq(SUBSET BandEntries),
                chnl : Seq(SUBSET ChnlEntries'),
                bw : Seq(SUBSET BwEntries'), power : Seq({{}})]
  /\ drv'.sw <=> todo'.chnl # <<>>
  /\ drv'.setBw <=> todo'.bw # <<>>
  /\ drv'.sw => \A f \in ChannelFields :
                  Outcome(f)' = ChannelTarget(center)[f]
  /\ ~drv'.sw => \A f \in ChannelFields : Outcome(f)' = regs[f]
  /\ drv'.setBw => \A f \in WidthFields :
                     Outcome(f)' = WidthTarget(center, width, sc80)[f]
  /\ drv'.setBw /\ ~board.cCut => Outcome("ccaOff")' = Off
  /\ board.cCut => Outcome("ccaOff")' = regs["ccaOff"]
  /\ \A f \in BandFields :
       Outcome(f)' = After(todo'.band, f, regs[f])
  /\ ~drv'.sw /\ ~drv'.setBw /\ before = <<>> =>
       \A f : Outcome(f)' = regs[f]

\* That is where the program of PHY_HandleSwChnlAndSetBW8812 leads.
LEMMA ProgramEffect ==
  ASSUME NEW d, NEW center \in 0..255, NEW width \in 0..2, NEW sc80,
         NEW before \in Seq(SUBSET BandEntries),
         NEW switch \in Seq(SUBSET BandEntries),
         d.sw \in BOOLEAN, d.setBw \in BOOLEAN,
         Handle(d, center, width, sc80, before, switch),
         board' = board, regs' = regs
  PROVE  ProgramLeads(center, width, sc80, before)
<1>1. /\ drv'.sw \in BOOLEAN /\ drv'.setBw \in BOOLEAN
      /\ todo' = [band |-> todo'.band, chnl |-> todo'.chnl,
                  bw |-> todo'.bw, power |-> todo'.power]
      /\ drv'.sw => todo'.band = before \o switch
      /\ ~drv'.sw => todo'.band = before
      /\ drv'.sw => todo'.chnl = SwChnl(center, width)
      /\ ~drv'.sw => todo'.chnl = <<>>
      /\ drv'.setBw => todo'.bw = PostSetBw(center, width, sc80)
      /\ ~drv'.setBw => todo'.bw = <<>>
      /\ todo'.power \in Seq({{}})
  BY HandleEffect DEF HandleDoes
<1>2. ChnlEntries' = ChnlEntries /\ BwEntries' = BwEntries
  BY DEF ChnlEntries, BwEntries, CcaEntries
<1>3. todo'.band \in Seq(SUBSET BandEntries)
  BY <1>1, Joined
<1>4. /\ SwChnl(center, width) \in Seq(SUBSET ChnlEntries)
      /\ SwChnl(center, width) # <<>>
      /\ \A f \in ChannelFields : \A x :
           After(SwChnl(center, width), f, x) = ChannelTarget(center)[f]
  BY SwChnlShape
<1>5. /\ PostSetBw(center, width, sc80) \in Seq(SUBSET BwEntries)
      /\ PostSetBw(center, width, sc80) # <<>>
      /\ \A f \in WidthFields : \A x :
           After(PostSetBw(center, width, sc80), f, x) =
             WidthTarget(center, width, sc80)[f]
      /\ ~board.cCut => \A x :
           After(PostSetBw(center, width, sc80), "ccaOff", x) = Off
  BY PostSetBwShape
<1>6. /\ todo'.chnl \in Seq(SUBSET ChnlEntries)
      /\ todo'.bw \in Seq(SUBSET BwEntries)
      /\ drv'.sw <=> todo'.chnl # <<>>
      /\ drv'.setBw <=> todo'.bw # <<>>
  <2>1. <<>> \in Seq(SUBSET ChnlEntries) /\ <<>> \in Seq(SUBSET BwEntries)
    BY EmptySeq
  <2> QED  BY <1>1, <1>4, <1>5, <2>1
<1>7. todo' \in [band : Seq(SUBSET BandEntries),
                 chnl : Seq(SUBSET ChnlEntries'),
                 bw : Seq(SUBSET BwEntries'), power : Seq({{}})]
  BY <1>1, <1>2, <1>3, <1>6
<1>8. \A f : Outcome(f)' = After(todo'.bw, f, After(todo'.chnl, f,
                             After(todo'.band, f, regs[f])))
  BY DEF Outcome
<1>9. \A f \in ChannelFields : \A x :
        After(todo'.bw, f, x) = x /\ After(todo'.band, f, x) = x
  <2> TAKE f \in ChannelFields
  <2> TAKE x
  <2>1. \A s \in Seq(SUBSET BwEntries) : After(s, f, x) = x
    BY BwLeaves
  <2>2. \A s \in Seq(SUBSET BandEntries) : After(s, f, x) = x
    BY BandLeaves
  <2> QED  BY <1>3, <1>6, <2>1, <2>2
<1>10. \A f \in ChannelFields : Outcome(f)' = After(todo'.chnl, f, regs[f])
  BY <1>8, <1>9
<1>11. drv'.sw => \A f \in ChannelFields :
                    Outcome(f)' = ChannelTarget(center)[f]
  BY <1>1, <1>4, <1>10
<1>12. ~drv'.sw => \A f \in ChannelFields : Outcome(f)' = regs[f]
  BY <1>1, <1>10, AfterNone
<1>13. drv'.setBw => \A f \in WidthFields :
                       Outcome(f)' = WidthTarget(center, width, sc80)[f]
  BY <1>1, <1>5, <1>8
<1>14. drv'.setBw /\ ~board.cCut => Outcome("ccaOff")' = Off
  BY <1>1, <1>5, <1>8
<1>15. board.cCut => Outcome("ccaOff")' = regs["ccaOff"]
  <2> SUFFICES ASSUME board.cCut PROVE Outcome("ccaOff")' = regs["ccaOff"]
    OBVIOUS
  <2> DEFINE f == "ccaOff"
             x == regs[f]
  <2>1. f = "ccaOff" /\ f \in {"ccaOff"}
    OBVIOUS
  <2> HIDE DEF f
  <2>2. After(todo'.band, f, x) = x
    BY <1>3, <2>1, BandLeaves
  <2>3. After(todo'.chnl, f, x) = x
    BY <1>6, <2>1, ChnlLeaves
  <2>4. After(todo'.bw, f, x) = x
    BY <1>6, <2>1, BwLeaves
  <2>5. Outcome(f)' = After(todo'.bw, f, After(todo'.chnl, f,
                             After(todo'.band, f, x)))
    BY <1>8
  <2> QED  BY <2>2, <2>3, <2>4, <2>5 DEF f
<1>16. ASSUME NEW f \in BandFields
       PROVE  Outcome(f)' = After(todo'.band, f, regs[f])
  <2> DEFINE y == After(todo'.band, f, regs[f])
  <2> HIDE DEF y
  <2>1. After(todo'.chnl, f, y) = y
    BY <1>6, ChnlLeaves
  <2>2. After(todo'.bw, f, y) = y
    BY <1>6, BwLeaves
  <2>3. Outcome(f)' = After(todo'.bw, f, After(todo'.chnl, f, y))
    BY <1>8 DEF y
  <2> QED  BY <2>1, <2>2, <2>3 DEF y
<1>17. ~drv'.sw /\ ~drv'.setBw /\ before = <<>> =>
         \A f : Outcome(f)' = regs[f]
  BY <1>1, <1>8, AfterNone
<1> QED  BY <1>6, <1>7, <1>11, <1>12, <1>13, <1>14, <1>15, <1>16, <1>17
       DEF ProgramLeads

\* What changes when a call begins: nothing of the adapter.
BeginsCall(by, channel, width) ==
  /\ call' = [by |-> by, channel |-> channel, width |-> width]
  /\ UNCHANGED <<board, regs, app, last, torn, faults>>

\* The types when a call begins.
LEMMA BeginTyped ==
  ASSUME RadioInv, NEW by \in {"hal", "mlme", "session"},
         NEW channel \in Channels, NEW width \in Widths,
         BeginsCall(by, channel, width),
         drv' \in [bwInit : BOOLEAN, sw : BOOLEAN, setBw : BOOLEAN,
                   chan : 0..255, index : 0..255, bw : 0..255, sc80 : 0..255],
         todo' \in [band : Seq(SUBSET BandEntries),
                    chnl : Seq(SUBSET ChnlEntries'),
                    bw : Seq(SUBSET BwEntries'), power : Seq({{}})]
  PROVE  RadioTypeOK' /\ ProgramTypeOK' /\ (call # None)'
<1>1. /\ call' = [by |-> by, channel |-> channel, width |-> width]
      /\ board' = board /\ regs' = regs /\ app' = app /\ last' = last
      /\ torn' = torn /\ faults' = faults
  BY DEF BeginsCall
<1>2. RadioTypeOK'
  <2>1. DOMAIN todo' = DOMAIN Idle
    BY DEF Idle
  <2>2. call'.by \in {"hal", "mlme", "session"}
    BY <1>1
  <2>3. RadioTypeOK
    BY DEF RadioInv
  <2> QED  BY <1>1, <2>1, <2>2, <2>3 DEF RadioTypeOK
<1>3. ProgramTypeOK'
  <2>1. call' \in [by : {"hal", "mlme", "session"}, channel : Channels,
                   width : Widths]
    BY <1>1
  <2>2. app'.up => app'.channel \in Channels /\ app'.width \in Widths
    BY <1>1 DEF RadioInv, ProgramTypeOK
  <2> QED  BY <2>1, <2>2 DEF ProgramTypeOK
<1>4. call' # None
  BY <1>1, RadioAssumption
<1> QED  BY <1>2, <1>3, <1>4

\* set_channel_bwmode keeps the invariant, if what the driver's caches and
\* flags say of the adapter is so, or is forgotten.
LEMMA TuneKeeps ==
  ASSUME RadioInv, todo = Idle, drv.bwInit,
         NEW by \in {"mlme", "session"}, app.up => by = "session",
         NEW channel \in Channels, NEW width \in Widths, NEW d,
         \/ d = drv /\ Begun
         \/ d = [drv EXCEPT !.chan = Forgotten, !.bw = 7],
         SetChannelBw(d, channel, width), BeginsCall(by, channel, width)
  PROVE  RadioInv'
<1> DEFINE center == CenterCh(channel, width)
           sc80 == Offset80(channel, width)
           switch == SwBand(center, width)
           none == <<>>
<1>1. width \in 0..2 /\ center \in 0..255 /\ sc80 \in 0..2
  BY CenterIsByte
<1>2. Handle(d, center, width, sc80, none, switch)
  BY DEF SetChannelBw
<1>3. /\ drv \in [bwInit : BOOLEAN, sw : BOOLEAN, setBw : BOOLEAN,
                  chan : 0..255, index : 0..255, bw : 0..255, sc80 : 0..255]
      /\ drv.index = drv.chan /\ (drv.sw => drv.setBw)
  BY DEF RadioInv, RadioTypeOK, Flags
<1>4. /\ d.sw = drv.sw /\ d.setBw = drv.setBw /\ d.bwInit
      /\ d.index = drv.index /\ d.sc80 = drv.sc80
      /\ \/ d.chan = drv.chan /\ d.bw = drv.bw /\ Begun
         \/ d.chan = Forgotten /\ d.bw = 7
  BY <1>3
<1>5. /\ board' = board /\ regs' = regs /\ app' = app /\ last' = last
      /\ torn' = torn /\ faults' = faults
      /\ call' = [by |-> by, channel |-> channel, width |-> width]
  BY DEF BeginsCall
<1>6. BandOf(center) \in Bands
  BY DEF BandOf, Bands
<1>7. /\ switch \in Seq(SUBSET BandEntries)
      /\ \/ regs.cckCheck = BandOf(center) /\ switch = <<>>
         \/ /\ switch # <<>>
            /\ \A f \in BandFields : \A x :
                 After(switch, f, x) = BandOf(center)
  <2>1. CASE regs.cckCheck = BandOf(center)
    BY <2>1, EmptySeq DEF SwBand
  <2>2. CASE regs.cckCheck # BandOf(center)
    BY <1>6, <2>2, SwitchBandShape DEF SwBand
  <2> QED  BY <2>1, <2>2
<1>8. none \in Seq(SUBSET BandEntries) /\ none \o switch = switch
  BY <1>7, EmptySeq, ConcatEmptySeq
<1> HIDE DEF center, sc80, switch, none
<1>9. /\ drv'.sw \in BOOLEAN /\ (drv'.sw <=> d.sw \/ d.chan # center)
      /\ drv'.setBw \in BOOLEAN
      /\ drv'.setBw <=> \/ d.setBw \/ ~d.bwInit
                        \/ d.bw # width \/ d.sc80 # sc80 \/ d.index # center
      /\ drv' = [bwInit |-> TRUE, sw |-> drv'.sw, setBw |-> drv'.setBw,
                 chan |-> center, index |-> center, bw |-> width,
                 sc80 |-> sc80]
      /\ drv'.sw => todo'.band = none \o switch
      /\ ~drv'.sw => todo'.band = none
  <2>1. d.sw \in BOOLEAN /\ d.setBw \in BOOLEAN
    BY <1>3, <1>4
  <2>2. HandleDoes(d, center, width, sc80, none, switch)
    BY <1>2, <1>8, <2>1, HandleEffect
  <2> QED  BY <2>2 DEF HandleDoes
<1>10. /\ todo' \in [band : Seq(SUBSET BandEntries),
                      chnl : Seq(SUBSET ChnlEntries'),
                      bw : Seq(SUBSET BwEntries'), power : Seq({{}})]
       /\ drv'.sw <=> todo'.chnl # <<>>
       /\ drv'.setBw <=> todo'.bw # <<>>
       /\ drv'.sw => \A f \in ChannelFields :
                       Outcome(f)' = ChannelTarget(center)[f]
       /\ ~drv'.sw => \A f \in ChannelFields : Outcome(f)' = regs[f]
       /\ drv'.setBw => \A f \in WidthFields :
                          Outcome(f)' = WidthTarget(center, width, sc80)[f]
       /\ drv'.setBw /\ ~board.cCut => Outcome("ccaOff")' = Off
       /\ board.cCut => Outcome("ccaOff")' = regs["ccaOff"]
       /\ \A f \in BandFields :
            Outcome(f)' = After(todo'.band, f, regs[f])
       /\ ~drv'.sw /\ ~drv'.setBw /\ none = <<>> =>
            \A f : Outcome(f)' = regs[f]
  <2>1. d.sw \in BOOLEAN /\ d.setBw \in BOOLEAN
    BY <1>3, <1>4
  <2>2. ProgramLeads(center, width, sc80, none)
    BY <1>1, <1>2, <1>5, <1>7, <1>8, <2>1, ProgramEffect
  <2> QED  BY <2>2 DEF ProgramLeads
<1>11. RadioTypeOK' /\ ProgramTypeOK' /\ call' # None
  <2>1. drv' \in [bwInit : BOOLEAN, sw : BOOLEAN, setBw : BOOLEAN,
                  chan : 0..255, index : 0..255, bw : 0..255, sc80 : 0..255]
    <3> DEFINE u == drv'.sw
               v == drv'.setBw
    <3>1. /\ u \in BOOLEAN /\ v \in BOOLEAN
          /\ drv' = [bwInit |-> TRUE, sw |-> u, setBw |-> v, chan |-> center,
                     index |-> center, bw |-> width, sc80 |-> sc80]
      BY <1>9
    <3>2. width \in 0..255 /\ sc80 \in 0..255
      BY <1>1
    <3> HIDE DEF u, v
    <3> QED  BY <1>1, <3>1, <3>2
  <2> QED  BY <1>10, <2>1, BeginTyped
<1>12. /\ drv'.sw => drv'.setBw
       /\ ~drv'.setBw => /\ Begun /\ ~drv.setBw /\ drv.bw = width
                         /\ drv.sc80 = sc80 /\ drv.chan = center
       /\ ~drv'.sw => /\ ~drv.sw
                      /\ center # Forgotten => Begun /\ drv.chan = center
  <2>1. width # 7
    BY <1>1
  <2> QED  BY <1>3, <1>4, <1>9, <2>1
<1>13. Begun'
  BY <1>5, <1>11 DEF Begun
<1>14. Flags'
  <2>1. drv'.bwInit /\ drv'.index = drv'.chan
    BY <1>9
  <2>2. todo'.band # <<>> => drv'.sw
    BY <1>9 DEF none
  <2>3. app'.up /\ call' # None => call'.by = "session"
    BY <1>5
  <2> QED  BY <1>10, <1>11, <1>12, <2>1, <2>2, <2>3 DEF Flags
<1>15. Caches'
  <2>1. CachesAre(channel, width)'
    BY <1>9 DEF CachesAre, center, sc80
  <2>2. call'.channel = channel /\ call'.width = width
    BY <1>5
  <2> QED  BY <1>11, <2>1, <2>2 DEF Caches, CachesAre
<1>16. drv'.chan = center /\ drv'.bw = width /\ drv'.sc80 = sc80
  BY <1>9
<1>17. UnflaggedIsSet /\ regs.ccaOff \in BOOLEAN
  BY DEF RadioInv, RadioTypeOK
<1>18. OnItsWay'
  <2>1. Outcome("ccaOff")' = FALSE
    <3>1. CASE board.cCut \/ ~drv.setBw
      <4>1. regs["ccaOff"] = FALSE
        BY <1>17, <3>1 DEF UnflaggedIsSet
      <4>2. CASE board.cCut
        BY <1>10, <4>1, <4>2
      <4>3. CASE ~board.cCut /\ drv'.setBw
        BY <1>10, <4>3 DEF Off
      <4>4. CASE ~board.cCut /\ ~drv'.setBw
        BY <1>10, <1>12, <4>1, <4>4 DEF none
      <4> QED  BY <4>2, <4>3, <4>4
    <3>2. CASE ~board.cCut /\ drv.setBw
      BY <1>10, <1>12, <3>2 DEF Off
    <3> QED  BY <3>1, <3>2
  <2>2. ASSUME center # Forgotten
        PROVE  /\ \A f \in ChannelFields :
                    Outcome(f)' = ChannelTarget(center)[f]
               /\ Outcome("cckCheck")' = BandOf(center)
    <3>1. "cckCheck" \in BandFields
      BY DEF BandFields
    <3>2. CASE drv'.sw
      <4>1. After(todo'.band, "cckCheck", regs["cckCheck"]) = BandOf(center)
        BY <1>7, <1>8, <1>9, <3>1, <3>2, AfterNone
      <4> QED  BY <1>10, <3>1, <3>2, <4>1
    <3>3. CASE ~drv'.sw
      <4>1. /\ \A f \in ChannelFields : regs[f] = ChannelTarget(center)[f]
            /\ regs["cckCheck"] = BandOf(center)
        BY <1>12, <1>17, <2>2, <3>3 DEF UnflaggedIsSet
      <4>2. After(todo'.band, "cckCheck", regs["cckCheck"]) = regs["cckCheck"]
        BY <1>9, <3>3, AfterNone DEF none
      <4> QED  BY <1>10, <3>1, <3>3, <4>1, <4>2
    <3> QED  BY <3>2, <3>3
  <2>3. \A f \in WidthFields :
          Outcome(f)' = WidthTarget(center, width, sc80)[f]
    <3>1. CASE drv'.setBw
      BY <1>10, <3>1
    <3>2. CASE ~drv'.setBw
      <4>1. \A f \in WidthFields :
              regs[f] = WidthTarget(center, width, sc80)[f]
        BY <1>12, <1>17, <3>2 DEF UnflaggedIsSet
      <4> QED  BY <1>10, <1>12, <3>2, <4>1 DEF none
    <3> QED  BY <3>1, <3>2
  <2>4. WidthTarget(center, width, sc80)' = WidthTarget(center, width, sc80)
    BY <1>5 DEF WidthTarget, center, sc80
  <2> QED  BY <1>16, <2>1, <2>2, <2>3, <2>4 DEF OnItsWay
<1>19. UnflaggedIsSet'
  <2>1. ProgramTypeOK' /\ (call # None)'
    BY <1>11
  <2> QED  BY <1>14, <1>18, <2>1, InCall, PTL
<1>20. BandIsWhole'
  <2>1. ~torn' => \A f \in FrontEnd : regs'[f] = regs'.cckCheck
    BY <1>5 DEF RadioInv, BandIsWhole
  <2>2. todo'.band # <<>> =>
          \A f \in BandFields : After(todo'.band, f, regs'[f]) = BandOf(center)
    BY <1>5, <1>7, <1>8, <1>9 DEF none
  <2> QED  BY <1>6, <2>1, <2>2 DEF BandIsWhole
<1> QED  BY <1>11, <1>14, <1>15, <1>18, <1>19, <1>20 DEF RadioInv

\* rtl8812au_hal_init's tune keeps the invariant: it sets everything.
LEMMA HalKeeps ==
  ASSUME RadioInv, NEW channel \in Channels, NEW width \in Widths,
         HalChannel(channel, width)
  PROVE  RadioInv'
<1> DEFINE before == SwitchBand("5G", drv.bw)
           none == <<>>
<1>1. /\ ~app.up /\ call = None /\ BeginsCall("hal", channel, width)
      /\ Handle(drv, 36, 0, 0, before, none)
  BY DEF HalChannel, BeginsCall
<1>2. /\ board' = board /\ regs' = regs /\ app' = app /\ last' = last
      /\ torn' = torn /\ faults' = faults
      /\ call' = [by |-> "hal", channel |-> channel, width |-> width]
  BY <1>1 DEF BeginsCall
<1>3. /\ drv \in [bwInit : BOOLEAN, sw : BOOLEAN, setBw : BOOLEAN,
                  chan : 0..255, index : 0..255, bw : 0..255, sc80 : 0..255]
      /\ ~drv.bwInit
  BY <1>1 DEF RadioInv, RadioTypeOK, Flags
<1>4. /\ before \in Seq(SUBSET BandEntries)
      /\ \A f \in BandFields : \A x : After(before, f, x) = "5G"
  <2>1. "5G" \in Bands
    BY DEF Bands
  <2> QED  BY <2>1, SwitchBandShape
<1>5. none \in Seq(SUBSET BandEntries) /\ before \o none = before
  BY <1>4, EmptySeq, ConcatEmptySeq
<1> HIDE DEF before, none
<1>6. drv.sw \in BOOLEAN /\ drv.setBw \in BOOLEAN
  BY <1>3
<1>7. HandleDoes(drv, 36, 0, 0, before, none)
  BY <1>1, <1>4, <1>6, HandleEffect
<1>8. ProgramLeads(36, 0, 0, before)
  <2>1. 36 \in 0..255 /\ 0 \in 0..2
    OBVIOUS
  <2> QED  BY <1>1, <1>2, <1>4, <1>5, <1>6, <2>1, ProgramEffect
<1>9. /\ drv'.sw \in BOOLEAN /\ drv'.setBw
      /\ drv' = [bwInit |-> TRUE, sw |-> drv'.sw, setBw |-> drv'.setBw,
                 chan |-> 36, index |-> 36, bw |-> 0, sc80 |-> 0]
      /\ todo'.band = before
  BY <1>3, <1>5, <1>7 DEF HandleDoes
<1>10. drv' \in [bwInit : BOOLEAN, sw : BOOLEAN, setBw : BOOLEAN,
                 chan : 0..255, index : 0..255, bw : 0..255, sc80 : 0..255]
  <2> DEFINE u == drv'.sw
             v == drv'.setBw
  <2>1. /\ u \in BOOLEAN /\ v \in BOOLEAN
        /\ drv' = [bwInit |-> TRUE, sw |-> u, setBw |-> v, chan |-> 36,
                   index |-> 36, bw |-> 0, sc80 |-> 0]
    BY <1>7, <1>9 DEF HandleDoes
  <2> HIDE DEF u, v
  <2> QED  BY <2>1
<1>11. RadioTypeOK' /\ ProgramTypeOK' /\ (call # None)'
  <2>1. todo' \in [band : Seq(SUBSET BandEntries),
                   chnl : Seq(SUBSET ChnlEntries'),
                   bw : Seq(SUBSET BwEntries'), power : Seq({{}})]
    BY <1>8 DEF ProgramLeads
  <2> QED  BY <1>1, <1>10, <2>1, BeginTyped
<1>12. ~Begun'
  BY <1>1, <1>2 DEF Begun
<1>13. Flags'
  <2>1. drv'.bwInit /\ drv'.index = drv'.chan
    BY <1>9
  <2>2. (drv'.sw <=> todo'.chnl # <<>>) /\ (drv'.setBw <=> todo'.bw # <<>>)
    BY <1>8 DEF ProgramLeads
  <2> QED  BY <1>1, <1>2, <1>9, <1>11, <1>12, <2>1, <2>2 DEF Flags
<1>14. Caches'
  BY <1>2, <1>11 DEF Caches
<1>15. UnflaggedIsSet /\ regs.ccaOff \in BOOLEAN
  BY DEF RadioInv, RadioTypeOK
<1>16. OnItsWay'
  <2>1. Outcome("ccaOff")' = FALSE
    <3>1. CASE board.cCut
      <4>1. regs["ccaOff"] = FALSE
        BY <1>15, <3>1 DEF UnflaggedIsSet
      <4> QED  BY <1>8, <3>1, <4>1 DEF ProgramLeads
    <3>2. CASE ~board.cCut
      BY <1>8, <1>9, <3>2 DEF ProgramLeads, Off
    <3> QED  BY <3>1, <3>2
  <2> QED  BY <1>12, <2>1 DEF OnItsWay
<1>17. UnflaggedIsSet'
  BY <1>11, <1>13, <1>16, InCall, PTL
<1>18. BandIsWhole'
  <2>1. ~torn' => \A f \in FrontEnd : regs'[f] = regs'.cckCheck
    BY <1>2 DEF RadioInv, BandIsWhole
  <2>2. \A f \in BandFields : After(todo'.band, f, regs'[f]) = "5G"
    BY <1>4, <1>9
  <2>3. "5G" \in Bands
    BY DEF Bands
  <2> QED  BY <2>1, <2>2, <2>3 DEF BandIsWhole
<1> QED  BY <1>11, <1>13, <1>14, <1>16, <1>17, <1>18 DEF RadioInv

\* A radio as the tables leave it, with a driver just made: what a session
\* begins with, the first one and every later one.
LEMMA NewKeeps == RadioInit => RadioInv
<1> SUFFICES ASSUME RadioInit PROVE RadioInv
  OBVIOUS
<1> USE DEF RadioInit
<1>1. /\ drv \in [bwInit : BOOLEAN, sw : BOOLEAN, setBw : BOOLEAN,
                  chan : 0..255, index : 0..255, bw : 0..255, sc80 : 0..255]
      /\ ~drv.bwInit /\ ~drv.sw /\ ~drv.setBw
  <2>1. PICK g \in Garbage : drv = NewDriver(g)
    OBVIOUS
  <2>2. g \in 0..255
    BY RadioAssumption
  <2> QED  BY <2>1, <2>2 DEF NewDriver
<1>2. /\ DOMAIN regs = Fields
      /\ \A f \in Numbers : regs[f] \in Word
      /\ \A f \in FrontEnd \cup {"cckCheck"} : regs[f] = "table"
      /\ regs["ccaOff"] = FALSE
  <2>1. /\ Fields = FrontEnd \cup {"cckCheck", "ccaOff"} \cup Numbers
        /\ "ccaOff" \notin Numbers
        /\ \A f \in FrontEnd \cup {"cckCheck"} :
             f \in Fields /\ f \notin Numbers /\ f # "ccaOff"
    BY DEF Fields, FrontEnd, Numbers
  <2>2. 0 \in Word
    BY DEF Word
  <2>3. \A f \in Numbers : regs[f] = 0
    BY <2>1 DEF FromTables
  <2>4. \A f \in FrontEnd \cup {"cckCheck"} : regs[f] = "table"
    BY <2>1 DEF FromTables
  <2>5. regs["ccaOff"] = FALSE
    BY <2>1 DEF FromTables
  <2>6. DOMAIN regs = Fields
    BY DEF FromTables
  <2> QED  BY <2>2, <2>3, <2>4, <2>5, <2>6
<1>3. RadioTypeOK
  <2>1. \A f \in FrontEnd \cup {"cckCheck"} :
          regs[f] \in {"table", "2.4G", "5G"}
    BY <1>2
  <2>2. regs.ccaOff \in BOOLEAN
    BY <1>2
  <2>3. app \in [up : BOOLEAN, channel : 0..177, width : 0..2]
    BY DEF NoSession
  <2>4. faults \in 0..MaxFaults
    BY RadioAssumption
  <2> QED  BY <1>1, <1>2, <2>1, <2>2, <2>3, <2>4 DEF RadioTypeOK
<1>4. ProgramTypeOK
  <2>1. \A S : <<>> \in Seq(S)
    BY EmptySeq
  <2> QED  BY <2>1 DEF ProgramTypeOK, Idle, NoSession
<1>5. ~Begun
  BY DEF Begun, NoSession
<1>6. Flags /\ Caches /\ OnItsWay
  BY <1>1, <1>5 DEF Flags, Caches, OnItsWay, Idle, NoSession
<1>7. UnflaggedIsSet
  BY <1>2, <1>5 DEF UnflaggedIsSet
<1>8. BandIsWhole
  BY <1>2 DEF BandIsWhole, Idle
<1> QED  BY <1>3, <1>4, <1>6, <1>7, <1>8 DEF RadioInv

\* init_hw_mlme_ext's tune keeps the invariant: from here on the caches say
\* what the adapter is, or will be.
LEMMA MlmeKeeps ==
  ASSUME RadioInv, InitMlme
  PROVE  RadioInv'
<1> DEFINE d == [drv EXCEPT !.chan = Forgotten, !.bw = 7]
<1>1. /\ call # None /\ call.by = "hal" /\ todo = Idle
      /\ SetChannelBw(d, call.channel, call.width)
      /\ call' = [call EXCEPT !.by = "mlme"]
      /\ UNCHANGED <<board, regs, app, last, torn, faults>>
  BY DEF InitMlme
<1>2. /\ call \in [by : {"hal", "mlme", "session"}, channel : Channels,
                   width : Widths]
      /\ ~app.up /\ drv.bwInit
  BY <1>1 DEF RadioInv, ProgramTypeOK, Flags
<1>3. call' = [by |-> "mlme", channel |-> call.channel, width |-> call.width]
  BY <1>1, <1>2
<1>4. BeginsCall("mlme", call.channel, call.width)
  BY <1>1, <1>3 DEF BeginsCall
<1>5. call.channel \in Channels /\ call.width \in Widths
  BY <1>2
<1> HIDE DEF d
<1>6. d = [drv EXCEPT !.chan = Forgotten, !.bw = 7]
  BY DEF d
<1> QED  BY <1>1, <1>2, <1>4, <1>5, <1>6, TuneKeeps

\* So does SetMonitorChannel's at the end of the bring-up.
LEMMA MonitorKeeps ==
  ASSUME RadioInv, MonitorChannel
  PROVE  RadioInv'
<1>1. /\ call # None /\ call.by = "mlme" /\ todo = Idle
      /\ SetChannelBw(drv, call.channel, call.width)
      /\ call' = [call EXCEPT !.by = "session"]
      /\ UNCHANGED <<board, regs, app, last, torn, faults>>
  BY DEF MonitorChannel
<1>2. /\ call \in [by : {"hal", "mlme", "session"}, channel : Channels,
                   width : Widths]
      /\ ~app.up /\ drv.bwInit /\ Begun
  BY <1>1 DEF RadioInv, ProgramTypeOK, Flags, Begun
<1>3. call' = [by |-> "session", channel |-> call.channel,
               width |-> call.width]
  BY <1>1, <1>2
<1>4. BeginsCall("session", call.channel, call.width)
  BY <1>1, <1>3 DEF BeginsCall
<1>5. call.channel \in Channels /\ call.width \in Widths
  BY <1>2
<1> QED  BY <1>1, <1>2, <1>4, <1>5, TuneKeeps

\* And a tune of the session, with a width or with the one it has.
LEMMA SessionKeeps ==
  ASSUME RadioInv, NEW channel \in Channels, NEW width,
         width \in Widths \/ width = app.width, Tune(channel, width)
  PROVE  RadioInv'
<1>1. /\ app.up /\ call = None /\ SetChannelBw(drv, channel, width)
      /\ BeginsCall("session", channel, width)
  BY DEF Tune, BeginsCall
<1>2. todo = Idle /\ drv.bwInit /\ width \in Widths /\ Begun
  BY <1>1 DEF RadioInv, ProgramTypeOK, Flags, Begun
<1> QED  BY <1>1, <1>2, TuneKeeps

\* A tune that is over leaves the caches saying what the adapter is.
LEMMA ReturnKeeps ==
  ASSUME RadioInv, Return
  PROVE  RadioInv'
<1>1. /\ call # None /\ call.by = "session" /\ todo = Idle
      /\ app' = [up |-> TRUE, channel |-> call.channel, width |-> call.width]
      /\ last' = <<call.channel, call.width>> /\ call' = None
      /\ UNCHANGED <<board, regs, drv, todo, torn, faults>>
  BY DEF Return
<1>2. call.channel \in Channels /\ call.width \in Widths /\ Begun
  BY <1>1 DEF RadioInv, ProgramTypeOK, Begun
<1>3. RadioTypeOK'
  <2>1. call.channel \in 0..177 /\ call.width \in 0..2
    <3>1. Channels \subseteq 0..177 /\ Widths \subseteq 0..2
      BY RadioAssumption
    <3> QED  BY <1>2, <3>1
  <2>2. app' \in [up : BOOLEAN, channel : 0..177, width : 0..2]
    BY <1>1, <2>1
  <2>3. last' \in (Channels \X Widths) \cup {None}
    BY <1>1, <1>2
  <2> QED  BY <1>1, <2>2, <2>3 DEF RadioInv, RadioTypeOK
<1>4. ProgramTypeOK'
  <2>1. BwEntries' = BwEntries /\ ChnlEntries' = ChnlEntries
    BY <1>1 DEF BwEntries, ChnlEntries, CcaEntries
  <2> QED  BY <1>1, <1>2, <2>1 DEF RadioInv, ProgramTypeOK
<1>5. ~drv.sw /\ ~drv.setBw
  BY <1>1 DEF RadioInv, Flags, Idle
<1>6. Begun'
  BY <1>1 DEF Begun
<1>7. Flags'
  BY <1>1, <1>5, <1>6 DEF RadioInv, Flags, Idle
<1>8. Caches'
  BY <1>1, <1>5 DEF RadioInv, Caches, CachesAre
<1>9. OnItsWay'
  BY <1>1 DEF OnItsWay
<1>10. UnflaggedIsSet'
  BY <1>1, <1>2 DEF RadioInv, UnflaggedIsSet, WidthTarget
<1>11. BandIsWhole'
  BY <1>1 DEF RadioInv, BandIsWhole
<1> QED  BY <1>3, <1>4, <1>7, <1>8, <1>9, <1>10, <1>11 DEF RadioInv

\* A session over keeps it: the next one begins anew.
LEMMA GoneKeeps ==
  ASSUME RadioInv, Gone, board' = board, call' = None, todo' = Idle,
         last' = None
  PROVE  RadioInv'
<1>1. RadioInit'
  BY DEF RadioInv, RadioTypeOK, Gone, RadioInit
<1> QED  BY <1>1, NewKeeps, PTL

\* So does a transfer that fails under a streaming session: what the flags
\* do not mark is as it was before the tune.
LEMMA FailKeeps ==
  ASSUME RadioInv, Fail
  PROVE  RadioInv'
<1>1. /\ call # None /\ call' = None /\ todo' = Idle /\ last' = None
      /\ board' = board
  BY DEF Fail
<1>2. CASE ~app.up
  <2>1. Gone
    BY <1>2 DEF Fail
  <2> QED  BY <1>1, <2>1, GoneKeeps
<1>3. CASE app.up
  <2>1. /\ faults < MaxFaults /\ faults' = faults + 1
        /\ regs' = regs /\ drv' = drv /\ app' = app /\ torn' = torn
    BY <1>3 DEF Fail
  <2>2. RadioTypeOK'
    <3>1. faults' \in 0..MaxFaults
      BY <2>1, RadioAssumption DEF RadioInv, RadioTypeOK
    <3> QED  BY <1>1, <2>1, <3>1 DEF RadioInv, RadioTypeOK
  <2>3. ProgramTypeOK'
    <3>1. \A S : <<>> \in Seq(S)
      BY EmptySeq
    <3> QED  BY <1>1, <2>1, <3>1 DEF RadioInv, ProgramTypeOK, Idle
  <2>4. Begun /\ Begun'
    BY <1>3, <2>1 DEF Begun
  <2>5. Flags'
    BY <1>1, <1>3, <2>1, <2>4 DEF RadioInv, Flags, Idle
  <2>6. Caches' /\ OnItsWay'
    BY <1>1 DEF Caches, OnItsWay
  <2>7. UnflaggedIsSet'
    BY <1>1, <2>1, <2>4 DEF RadioInv, UnflaggedIsSet, WidthTarget
  <2>8. BandIsWhole'
    BY <1>1, <2>1 DEF RadioInv, BandIsWhole, Idle
  <2> QED  BY <2>2, <2>3, <2>5, <2>6, <2>7, <2>8 DEF RadioInv
<1> QED  BY <1>2, <1>3

\* Every step of the radio keeps the invariant.
LEMMA NextKeeps ==
  ASSUME RadioInv, [RadioNext]_radioVars
  PROVE  RadioInv'
<1>1. CASE UNCHANGED radioVars
  BY <1>1 DEF radioVars, RadioInv, RadioTypeOK, ProgramTypeOK, BwEntries,
     ChnlEntries, CcaEntries, Flags, Begun, Caches, CachesAre, OnItsWay,
     Outcome, UnflaggedIsSet, WidthTarget, BandIsWhole
<1>2. ASSUME NEW channel \in Channels, NEW width \in Widths,
             HalChannel(channel, width)
      PROVE  RadioInv'
  BY <1>2, HalKeeps
<1>3. ASSUME NEW channel \in Channels, NEW width \in Widths,
             Tune(channel, width)
      PROVE  RadioInv'
  BY <1>3, SessionKeeps
<1>4. ASSUME NEW channel \in Channels, Tune(channel, app.width)
      PROVE  RadioInv'
  BY <1>4, SessionKeeps
<1>5. CASE InitMlme
  BY <1>5, MlmeKeeps
<1>6. CASE MonitorChannel
  BY <1>6, MonitorKeeps
<1>7. CASE Step
  BY <1>7, StepKeeps
<1>8. CASE Return
  BY <1>8, ReturnKeeps
<1>9. CASE Fail
  BY <1>9, FailKeeps
<1>10. CASE EndSession
  <2>1. todo = Idle
    BY <1>10 DEF RadioInv, Flags, EndSession
  <2> QED  BY <1>10, <2>1, GoneKeeps DEF EndSession
<1> QED  BY <1>1, <1>2, <1>3, <1>4, <1>5, <1>6, <1>7, <1>8, <1>9, <1>10
       DEF RadioNext

\* The invariant of tuning: where the rest of a call leads, what the caches
\* and flags say meanwhile, and what a call cut short leaves true.
THEOREM Invariant == RadioSpec => []RadioInv
<1>1. RadioInit => RadioInv
  BY NewKeeps
<1>2. RadioInv /\ [RadioNext]_radioVars => RadioInv'
  BY NextKeeps
<1> QED  BY <1>1, <1>2, PTL DEF RadioSpec

\* RadioManagementModule's members and the registers keep their ranges: a
\* byte for a channel though its center is computed in signed arithmetic.
THEOREM TypeCorrect == RadioSpec => []RadioTypeOK
<1>1. RadioInv => RadioTypeOK
  BY DEF RadioInv
<1> QED  BY <1>1, Invariant, PTL

\* The targets of the invariant are what the properties of tuning ask for.
LEMMA ChannelTargetMet ==
  ASSUME NEW center,
         \A f \in ChannelFields : regs[f] = ChannelTarget(center)[f]
  PROVE  ChannelIs(center)
BY DEF ChannelFields, ChannelTarget, ChannelIs

\* The same of the width.
LEMMA WidthTargetMet ==
  ASSUME NEW center, NEW width, NEW sc80,
         \A f \in WidthFields : regs[f] = WidthTarget(center, width, sc80)[f]
  PROVE  WidthIs(center, width, sc80)
BY DEF WidthFields, WidthTarget, WidthIs

\* phy_SwChnlAndSetBwMode8812's flags: no half of a tune is skipped over
\* registers of an older request.
THEOREM UnflaggedAlwaysDone == RadioSpec => []UnflaggedIsDone
<1>1. RadioInv => UnflaggedIsDone
  <2> SUFFICES ASSUME RadioInv, app.up
               PROVE  /\ ~drv.sw /\ drv.chan # Forgotten =>
                           ChannelIs(drv.chan)
                      /\ ~drv.setBw => WidthIs(drv.chan, drv.bw, drv.sc80)
    BY DEF UnflaggedIsDone
  <2>1. /\ ~drv.sw /\ drv.chan # Forgotten => \A f \in ChannelFields :
             regs[f] = ChannelTarget(drv.chan)[f]
        /\ ~drv.setBw => \A f \in WidthFields :
             regs[f] = WidthTarget(drv.chan, drv.bw, drv.sc80)[f]
    BY DEF RadioInv, UnflaggedIsSet, Begun
  <2> QED  BY <2>1, ChannelTargetMet, WidthTargetMet
<1> QED  BY <1>1, Invariant, PTL

\* SetMonitorChannel, once it returns: the adapter is as the last request
\* says, whatever was tuned to before and wherever a read failed.
THEOREM TunedAlwaysConfigured == RadioSpec => []TunedIsConfigured
<1>1. RadioInv => TunedIsConfigured
  <2> SUFFICES ASSUME RadioInv, call = None, last # None
               PROVE  LET center == CenterCh(last[1], last[2]) IN
                      /\ center # Forgotten => ChannelIs(center)
                      /\ WidthIs(center, last[2], Offset80(last[1], last[2]))
                      /\ ~regs.ccaOff
    BY DEF TunedIsConfigured
  <2>1. app.up /\ ~drv.sw /\ ~drv.setBw /\ CachesAre(last[1], last[2])
    BY DEF RadioInv, Caches
  <2>2. /\ ~regs.ccaOff
        /\ drv.chan # Forgotten => \A f \in ChannelFields :
             regs[f] = ChannelTarget(drv.chan)[f]
        /\ \A f \in WidthFields :
             regs[f] = WidthTarget(drv.chan, drv.bw, drv.sc80)[f]
    BY <2>1 DEF RadioInv, UnflaggedIsSet, Begun
  <2> QED  BY <2>1, <2>2, ChannelTargetMet, WidthTargetMet DEF CachesAre
<1> QED  BY <1>1, Invariant, PTL

\* phy_SwBand8812 over every history that tears no switch: one band's values.
THEOREM FrontEndAlwaysOfBand == RadioSpec => []FrontEndIsOfBand
<1>1. RadioInv => FrontEndIsOfBand
  <2> SUFFICES ASSUME RadioInv, call = None, last # None, ~torn,
                      CenterCh(last[1], last[2]) # Forgotten
               PROVE  \A f \in FrontEnd \cup {"cckCheck"} :
                        regs[f] = BandOf(CenterCh(last[1], last[2]))
    BY DEF FrontEndIsOfBand
  <2>1. app.up /\ ~drv.sw /\ CachesAre(last[1], last[2])
    BY DEF RadioInv, Caches
  <2>2. drv.chan # Forgotten => regs.cckCheck = BandOf(drv.chan)
    BY <2>1 DEF RadioInv, UnflaggedIsSet, Begun
  <2>3. \A f \in FrontEnd : regs[f] = regs.cckCheck
    BY DEF RadioInv, BandIsWhole
  <2> QED  BY <2>1, <2>2, <2>3 DEF CachesAre
<1> QED  BY <1>1, Invariant, PTL

=============================================================================
