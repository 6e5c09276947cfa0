--------------------------- MODULE Estimator_proofs ---------------------------
(***************************************************************************)
(* For every horizon and every pattern of late, missing and failed         *)
(* measurements: the window holds each late measurement beside the others  *)
(* of its instant, and the controls are neutral unless the controller runs *)
(* and has solved its problem.                                             *)
(***************************************************************************)
EXTENDS Estimator, TLAPS

Age == {None} \cup Nat
IsWindow(w) ==
  w \in [y : [Position -> Instant], W : [Position -> [Kinds -> BOOLEAN]]]

LEMMA Horizon ==
  /\ N \in Nat /\ N > 0 /\ 0 \in Position /\ N \in Position
  /\ \A k \in Position : k \in Nat /\ k <= N
  /\ MaxOverruns \in Nat /\ Grace \in Nat /\ MAX_NUM_FAILURES \in Nat
  BY EstimatorAssumption DEF Position, MAX_NUM_FAILURES

-----------------------------------------------------------------------------
(* The operators on the window.                                            *)

LEMMA EmptyType == Empty \in Instant /\ None \in Age
  BY DEF Empty, Instant, None, Age

LEMMA InstantFields ==
  ASSUME NEW i \in Instant
  PROVE  i.t \in Age /\ i.cable \in Age /\ i.markers \in Age
  BY DEF Instant, Age

LEMMA AgedType == ASSUME NEW a \in Age PROVE Aged(a) \in Age
  BY DEF Aged, Age, None

LEMMA AgedInstant ==
  ASSUME NEW i \in Instant
  PROVE  /\ [f \in DOMAIN Empty |-> Aged(i[f])] \in Instant
         /\ [f \in DOMAIN Empty |-> Aged(i[f])].t = Aged(i.t)
         /\ [f \in DOMAIN Empty |-> Aged(i[f])].cable = Aged(i.cable)
         /\ [f \in DOMAIN Empty |-> Aged(i[f])].markers = Aged(i.markers)
<1>1. DOMAIN Empty = {"t", "cable", "markers"}
  BY DEF Empty
<1>2. Aged(i.t) \in Age /\ Aged(i.cable) \in Age /\ Aged(i.markers) \in Age
  BY AgedType, InstantFields
<1>3. [f \in DOMAIN Empty |-> Aged(i[f])]
        = [t |-> Aged(i.t), cable |-> Aged(i.cable), markers |-> Aged(i.markers)]
  BY <1>1
<1> QED BY <1>2, <1>3 DEF Instant, Age

\* A period passes.
LEMMA WindowEffect ==
  ASSUME y \in [Position -> Instant], W \in [Position -> [Kinds -> BOOLEAN]]
  PROVE  /\ IsWindow(Window) /\ Window.W = W
         /\ \A k \in Position : /\ Window.y[k].t = Aged(y[k].t)
                                /\ Window.y[k].cable = Aged(y[k].cable)
                                /\ Window.y[k].markers = Aged(y[k].markers)
<1>1. Window.y = [k \in Position |-> [f \in DOMAIN Empty |-> Aged(y[k][f])]]
  BY DEF Window, AgedWindow
<1>2. Window.W = W
  BY DEF Window
<1>3. \A k \in Position : y[k] \in Instant
  OBVIOUS
<1>4. \A k \in Position : /\ Window.y[k] \in Instant
                          /\ Window.y[k].t = Aged(y[k].t)
                          /\ Window.y[k].cable = Aged(y[k].cable)
                          /\ Window.y[k].markers = Aged(y[k].markers)
  BY <1>1, <1>3, AgedInstant
<1>5. Window.y \in [Position -> Instant]
  BY <1>1, <1>4
<1>6. IsWindow(Window)
  <2>1. Window = [y |-> Window.y, W |-> Window.W]
    BY DEF Window
  <2> QED BY <1>2, <1>5, <2>1 DEF IsWindow
<1> QED BY <1>2, <1>4, <1>6

\* Put changes one field of one instant and its weight.
LEMMA PutEffect ==
  ASSUME NEW w, IsWindow(w), NEW k \in Position, NEW kind \in Kinds,
         NEW age \in Age, NEW weight \in BOOLEAN
  PROVE  LET v == Put(w, k, kind, age, weight) IN
         /\ IsWindow(v)
         /\ \A j \in Position : j # k => v.y[j] = w.y[j] /\ v.W[j] = w.W[j]
         /\ v.y[k].t = w.y[k].t
         /\ v.y[k][kind] = age /\ v.W[k][kind] = weight
         /\ \A other \in Kinds \ {kind} : /\ v.y[k][other] = w.y[k][other]
                                          /\ v.W[k][other] = w.W[k][other]
<1> DEFINE v == Put(w, k, kind, age, weight)
<1>1. /\ v.y = [w.y EXCEPT ![k] = [w.y[k] EXCEPT ![kind] = age]]
      /\ v.W = [w.W EXCEPT ![k] = [w.W[k] EXCEPT ![kind] = weight]]
  BY DEF Put
<1>2. w.y \in [Position -> Instant] /\ w.W \in [Position -> [Kinds -> BOOLEAN]]
      /\ w.y[k] \in Instant /\ w.W[k] \in [Kinds -> BOOLEAN]
  BY DEF IsWindow
<1> HIDE DEF v
<1>3. /\ [w.y[k] EXCEPT ![kind] = age] \in Instant
      /\ [w.y[k] EXCEPT ![kind] = age].t = w.y[k].t
      /\ [w.y[k] EXCEPT ![kind] = age][kind] = age
      /\ \A other \in Kinds \ {kind} :
           [w.y[k] EXCEPT ![kind] = age][other] = w.y[k][other]
  <2>1. CASE kind = "cable"
    BY <1>2, <2>1 DEF Instant, Kinds, Age
  <2>2. CASE kind = "markers"
    BY <1>2, <2>2 DEF Instant, Kinds, Age
  <2> QED BY <2>1, <2>2 DEF Kinds
<1>4. /\ [w.W[k] EXCEPT ![kind] = weight] \in [Kinds -> BOOLEAN]
      /\ [w.W[k] EXCEPT ![kind] = weight][kind] = weight
      /\ \A other \in Kinds \ {kind} :
           [w.W[k] EXCEPT ![kind] = weight][other] = w.W[k][other]
  BY <1>2
<1>5. /\ v.y \in [Position -> Instant]
      /\ \A j \in Position : j # k => v.y[j] = w.y[j]
      /\ v.y[k] = [w.y[k] EXCEPT ![kind] = age]
  BY <1>1, <1>2, <1>3
<1>6. /\ v.W \in [Position -> [Kinds -> BOOLEAN]]
      /\ \A j \in Position : j # k => v.W[j] = w.W[j]
      /\ v.W[k] = [w.W[k] EXCEPT ![kind] = weight]
  BY <1>1, <1>2, <1>4
<1>7. /\ v.y[k].t = w.y[k].t
      /\ v.y[k][kind] = age
      /\ \A other \in Kinds \ {kind} : v.y[k][other] = w.y[k][other]
  BY <1>3, <1>5
<1>8. /\ v.W[k][kind] = weight
      /\ \A other \in Kinds \ {kind} : v.W[k][other] = w.W[k][other]
  BY <1>4, <1>6
<1>9. IsWindow(v)
  <2>1. v = [y |-> v.y, W |-> v.W]
    BY DEF v, Put
  <2> QED BY <1>5, <1>6, <2>1 DEF IsWindow
<1> QED BY <1>5, <1>6, <1>7, <1>8, <1>9 DEF v

-----------------------------------------------------------------------------
(* The window between two updates and in the middle of one.  Times: the    *)
(* measurements at k are at - k periods old, or up to l more.  WeightedAt: *)
(* what has a weight was measured, and belongs there.                      *)

Times(w, at, l) == \A k \in Position : k <= at => w.y[k].t \in (at - k)..(at - k + l)
WeightedAt(w, k, kind, l) ==
  w.W[k][kind] => /\ w.y[k][kind] \in Nat /\ w.y[k].t \in Nat
                  /\ w.y[k].t - w.y[k][kind] \in 0..l

\* Nothing is known yet of what comes late for the instant at.
Before(w, at, l) ==
  /\ IsWindow(w) /\ Times(w, at, l)
  /\ \A k \in Position, kind \in Kinds : k # at => WeightedAt(w, k, kind, l)
  /\ \A k \in Position : k >= at => ~w.W[k]["markers"]
  /\ \A k \in Position : k > at => ~w.W[k]["cable"]

After(w, at, l) ==
  /\ Before(w, at, l)
  /\ \A kind \in Kinds : WeightedAt(w, at, kind, l)

\* A late measurement goes to the instant its delay says, or nowhere.
LEMMA PutLateEffect ==
  ASSUME NEW w, IsWindow(w), NEW at \in Position, NEW kind \in Kinds,
         NEW age \in Age, NEW weight \in BOOLEAN, delay' \in [Kinds -> 0..N]
  PROVE  LET v == PutLate(w, at, kind, age, weight) IN
         /\ IsWindow(v)
         /\ \A j \in Position : v.y[j].t = w.y[j].t
         /\ \A j \in Position, other \in Kinds :
              (j # at - delay'[kind] \/ other # kind) =>
                v.y[j][other] = w.y[j][other] /\ v.W[j][other] = w.W[j][other]
         /\ \A j \in Position :
              j = at - delay'[kind] => v.y[j][kind] = age /\ v.W[j][kind] = weight
<1> DEFINE v == PutLate(w, at, kind, age, weight)
<1>1. at \in Nat /\ at <= N /\ delay'[kind] \in 0..N
  BY Horizon
<1>2. CASE at - delay'[kind] < 0
  <2>1. v = w
    BY <1>2 DEF PutLate
  <2>2. \A j \in Position : j # at - delay'[kind]
    BY <1>1, <1>2, Horizon
  <2> HIDE DEF v
  <2> QED BY <2>1, <2>2 DEF v
<1>3. CASE ~(at - delay'[kind] < 0)
  <2> DEFINE k == at - delay'[kind]
  <2>1. v = Put(w, k, kind, age, weight)
    BY <1>3 DEF PutLate
  <2>2. k \in Position
    BY <1>1, <1>3, Horizon DEF Position
  <2> HIDE DEF v, k
  <2>3. /\ IsWindow(v)
        /\ \A j \in Position : j # k => v.y[j] = w.y[j] /\ v.W[j] = w.W[j]
        /\ v.y[k].t = w.y[k].t
        /\ v.y[k][kind] = age /\ v.W[k][kind] = weight
        /\ \A other \in Kinds \ {kind} : /\ v.y[k][other] = w.y[k][other]
                                         /\ v.W[k][other] = w.W[k][other]
    BY <2>1, <2>2, PutEffect
  <2>4. \A j \in Position : v.y[j].t = w.y[j].t
    BY <2>3
  <2>5. \A j \in Position, other \in Kinds : (j # k \/ other # kind) =>
          v.y[j][other] = w.y[j][other] /\ v.W[j][other] = w.W[j][other]
    BY <2>3
  <2>6. \A j \in Position : j = k => v.y[j][kind] = age /\ v.W[j][kind] = weight
    BY <2>3
  <2> QED BY <2>3, <2>4, <2>5, <2>6 DEF v, k
<1> QED BY <1>2, <1>3

\* If it was taken when its delay says, it is put beside its own instant.
LEMMA PutLateAligned ==
  ASSUME NEW w, NEW at \in Position, NEW l \in Nat, Before(w, at, l),
         NEW kind \in Kinds, NEW age \in Age, NEW weight \in BOOLEAN,
         delay' \in [Kinds -> 0..N],
         weight => age = delay'[kind]
  PROVE  LET v == PutLate(w, at, kind, age, weight) IN
         /\ IsWindow(v) /\ Times(v, at, l)
         /\ \A k \in Position, other \in Kinds :
              (k # at \/ (other = kind /\ delay'[kind] = 0)) => WeightedAt(v, k, other, l)
         /\ \A k \in Position, other \in Kinds :
              WeightedAt(w, k, other, l) => WeightedAt(v, k, other, l)
<1> DEFINE v == PutLate(w, at, kind, age, weight)
           d == delay'[kind]
<1>1. /\ IsWindow(v)
      /\ \A j \in Position : v.y[j].t = w.y[j].t
      /\ \A j \in Position, other \in Kinds :
           (j # at - d \/ other # kind) =>
             v.y[j][other] = w.y[j][other] /\ v.W[j][other] = w.W[j][other]
      /\ \A j \in Position : j = at - d => v.y[j][kind] = age /\ v.W[j][kind] = weight
  <2>1. IsWindow(w)
    BY DEF Before
  <2> HIDE DEF v
  <2> QED BY <2>1, PutLateEffect DEF v
<1>2. at \in Nat /\ d \in Nat /\ (weight => age = d)
  BY Horizon
<1> HIDE DEF v, d
<1>3. Times(v, at, l)
  BY <1>1 DEF Times, Before
<1>4. \A k \in Position, other \in Kinds :
        (k # at - d \/ other # kind) /\ WeightedAt(w, k, other, l)
          => WeightedAt(v, k, other, l)
  BY <1>1 DEF WeightedAt
<1>5. \A k \in Position : k = at - d => WeightedAt(v, k, kind, l)
  <2> SUFFICES ASSUME NEW k \in Position, k = at - d, weight
               PROVE  /\ v.y[k][kind] \in Nat /\ v.y[k].t \in Nat
                      /\ v.y[k].t - v.y[k][kind] \in 0..l
    BY <1>1 DEF WeightedAt
  <2>1. k \in Nat /\ k <= at /\ at - k = d
    BY <1>2, Horizon
  <2>2. v.y[k].t \in (at - k)..(at - k + l)
    BY <1>3, <2>1 DEF Times
  <2>3. v.y[k][kind] = d
    BY <1>1, <1>2
  <2> QED BY <1>2, <2>1, <2>2, <2>3
<1>6. \A k \in Position, other \in Kinds :
        WeightedAt(w, k, other, l) => WeightedAt(v, k, other, l)
  BY <1>4, <1>5
<1>7. \A k \in Position, other \in Kinds : k # at => WeightedAt(v, k, other, l)
  BY <1>6 DEF Before
<1>8. d = 0 => WeightedAt(v, at, kind, l)
  BY <1>2, <1>5
<1>9. \A k \in Position, other \in Kinds :
         (k # at \/ (other = kind /\ d = 0)) => WeightedAt(v, k, other, l)
  BY <1>7, <1>8
<1> QED BY <1>1, <1>3, <1>6, <1>9 DEF v, d

LEMMA PictureFields ==
  ASSUME NEW p \in Picture
  PROVE  /\ p.age \in Age /\ p.seen \in BOOLEAN
         /\ (IF p.seen THEN p.age ELSE None) \in Age
<1>1. p.age \in Age /\ p.seen \in BOOLEAN
  <2>1. CASE p \in [age : {None}, seen : {FALSE}]
    <3>1. p.age \in {None} /\ p.seen \in {FALSE}
      BY <2>1
    <3> QED BY <3>1, EmptyType
  <2>2. CASE p \in [age : 1..N, seen : BOOLEAN]
    <3>1. p.age \in 1..N /\ p.seen \in BOOLEAN
      BY <2>2
    <3> QED BY <3>1, Horizon DEF Age
  <2> QED BY <2>1, <2>2 DEF Picture
<1> QED BY <1>1, EmptyType

LEMMA NewMeasurements ==
  ASSUME NEW w, IsWindow(w), NEW m
  PROVE  [w EXCEPT !.y = m] = [y |-> m, W |-> w.W]
BY DEF IsWindow

LEMMA DefaultsEffect ==
  ASSUME NEW w, IsWindow(w), NEW at \in Position, execY' \in Age
  PROVE  LET v == PutDefaults(w, at) IN
         /\ IsWindow(v) /\ v.W = w.W
         /\ \A j \in Position : j # at => v.y[j] = w.y[j]
         /\ v.y[at].t = execY'
<1> DEFINE v == PutDefaults(w, at)
           e == [Empty EXCEPT !.t = execY']
<1>1. e = [t |-> execY', cable |-> None, markers |-> None]
  BY DEF Empty
<1>2. e \in Instant /\ e.t = execY'
  BY <1>1, EmptyType DEF Instant, Age
<1> HIDE DEF e
<1>3. w.y \in [Position -> Instant] /\ w.W \in [Position -> [Kinds -> BOOLEAN]]
  BY DEF IsWindow
<1>4. v = [w EXCEPT !.y = [w.y EXCEPT ![at] = e]]
  BY Zenon DEF PutDefaults, e
<1> HIDE DEF v
<1>5. v.y = [w.y EXCEPT ![at] = e] /\ v.W = w.W
  BY <1>4 DEF IsWindow
<1>6. /\ v.y \in [Position -> Instant]
      /\ \A j \in Position : j # at => v.y[j] = w.y[j]
      /\ v.y[at].t = execY'
  BY <1>2, <1>3, <1>5
<1>7. IsWindow(v)
  <2>1. v = [y |-> [w.y EXCEPT ![at] = e], W |-> w.W]
    BY <1>4, NewMeasurements
  <2> QED BY <1>3, <1>5, <1>6, <2>1 DEF IsWindow
<1> QED BY <1>5, <1>6, <1>7 DEF v

LEMMA PictureType ==
  ASSUME NEW w, IsWindow(w), NEW at \in Position, NEW p \in Picture,
         delay' \in [Kinds -> 0..N]
  PROVE  IsWindow(PutPicture(w, at, p))
<1>1. CASE p.age = None
  BY <1>1 DEF PutPicture
<1>2. CASE p.age # None
  <2>1. PutPicture(w, at, p)
          = PutLate(w, at, "markers", IF p.seen THEN p.age ELSE None, p.seen)
    BY <1>2 DEF PutPicture
  <2>2. (IF p.seen THEN p.age ELSE None) \in Age /\ p.seen \in BOOLEAN
        /\ "markers" \in Kinds
    BY PictureFields DEF Kinds
  <2> QED BY <2>1, <2>2, PutLateEffect
<1> QED BY <1>1, <1>2

LEMMA PictureAligned ==
  ASSUME NEW w, NEW at \in Position, NEW l \in Nat, Before(w, at, l),
         NEW p \in Picture, delay' \in [Kinds -> 0..N],
         p.age # None => delay'["markers"] = p.age
  PROVE  LET v == PutPicture(w, at, p) IN
         /\ Before(v, at, l)
         /\ \A k \in Position : v.W[k]["cable"] = w.W[k]["cable"]
<1> DEFINE v == PutPicture(w, at, p)
<1>1. CASE p.age = None
  <2>1. v = w
    BY <1>1 DEF PutPicture
  <2> HIDE DEF v
  <2> QED BY <2>1 DEF v
<1>2. CASE p.age # None
  <2> DEFINE a == IF p.seen THEN p.age ELSE None
             seen == p.seen
             d == delay'["markers"]
  <2>0. IsWindow(w)
    BY DEF Before
  <2>1. v = PutLate(w, at, "markers", a, seen)
    BY <1>2 DEF PutPicture
  <2>2. a \in Age /\ seen \in BOOLEAN /\ "markers" \in Kinds /\ "cable" \in Kinds
    BY PictureFields DEF Kinds
  <2>3. seen => a = d
    BY <1>2
  <2>4. d \in Nat /\ d > 0
    <3>1. p \in [age : 1..N, seen : BOOLEAN]
      BY <1>2 DEF Picture
    <3>2. p.age \in 1..N
      BY <3>1
    <3> QED BY <1>2, <3>2, Horizon
  <2>5. at \in Nat
    BY Horizon
  <2> HIDE DEF v, a, seen
  <2>6. /\ IsWindow(v) /\ Times(v, at, l)
        /\ \A k \in Position, other \in Kinds : k # at => WeightedAt(v, k, other, l)
        /\ \A k \in Position, other \in Kinds :
             (k # at - d \/ other # "markers") => v.W[k][other] = w.W[k][other]
    <3>1. IsWindow(v) /\ Times(v, at, l)
      BY <2>1, <2>2, <2>3, PutLateAligned
    <3>2. \A k \in Position, other \in Kinds : k # at => WeightedAt(v, k, other, l)
      BY <2>1, <2>2, <2>3, PutLateAligned
    <3>3. \A k \in Position, other \in Kinds :
             (k # at - d \/ other # "markers") => v.W[k][other] = w.W[k][other]
      BY <2>0, <2>1, <2>2, PutLateEffect
    <3> QED BY <3>1, <3>2, <3>3
  <2> HIDE DEF d
  <2>7. \A k \in Position : v.W[k]["cable"] = w.W[k]["cable"]
    BY <2>2, <2>6
  <2>8. \A k \in Position : k >= at => v.W[k]["markers"] = w.W[k]["markers"]
    BY <2>2, <2>4, <2>5, <2>6, Horizon
  <2> QED BY <2>6, <2>7, <2>8 DEF Before, v
<1> QED BY <1>1, <1>2

LEMMA CableType ==
  ASSUME NEW w, IsWindow(w), NEW at \in Position, NEW c \in Cable,
         delay' \in [Kinds -> 0..N]
  PROVE  IsWindow(PutCable(w, at, c))
<1>1. c \in Age /\ (c # None) \in BOOLEAN /\ "cable" \in Kinds
  BY Horizon DEF Kinds, Cable, Age, None
<1> QED BY <1>1, PutLateEffect DEF PutCable

LEMMA CableAligned ==
  ASSUME NEW w, NEW at \in Position, NEW l \in Nat, Before(w, at, l),
         NEW c \in Cable, delay' \in [Kinds -> 0..N],
         c # None => delay'["cable"] = c,
         delay'["cable"] = 0 \/ ~w.W[at]["cable"]
  PROVE  After(PutCable(w, at, c), at, l)
<1> DEFINE v == PutCable(w, at, c)
           weight == c # None
           d == delay'["cable"]
<1>0. IsWindow(w)
  BY DEF Before
<1>1. v = PutLate(w, at, "cable", c, weight)
  BY DEF PutCable
<1>2. c \in Age /\ weight \in BOOLEAN /\ "cable" \in Kinds /\ "markers" \in Kinds
      /\ (weight => c = d)
  BY Horizon DEF Kinds, Cable, Age, None
<1>3. at \in Nat /\ d \in Nat
  BY <1>2, Horizon
<1>4. Before(w, at, l) /\ (d = 0 \/ ~w.W[at]["cable"])
  OBVIOUS
<1> HIDE DEF v, weight
<1>5. /\ IsWindow(v) /\ Times(v, at, l)
      /\ \A k \in Position, other \in Kinds :
           (k # at \/ (other = "cable" /\ d = 0)) => WeightedAt(v, k, other, l)
      /\ \A k \in Position, other \in Kinds :
           WeightedAt(w, k, other, l) => WeightedAt(v, k, other, l)
      /\ \A k \in Position, other \in Kinds :
           (k # at - d \/ other # "cable") => v.W[k][other] = w.W[k][other]
  <2>1. IsWindow(v) /\ Times(v, at, l)
    BY <1>1, <1>2, PutLateAligned
  <2>2. \A k \in Position, other \in Kinds :
          (k # at \/ (other = "cable" /\ d = 0)) => WeightedAt(v, k, other, l)
    BY <1>1, <1>2, PutLateAligned
  <2>3. \A k \in Position, other \in Kinds :
           WeightedAt(w, k, other, l) => WeightedAt(v, k, other, l)
    BY <1>1, <1>2, PutLateAligned
  <2>4. \A k \in Position, other \in Kinds :
           (k # at - d \/ other # "cable") => v.W[k][other] = w.W[k][other]
    BY <1>0, <1>1, <1>2, PutLateEffect
  <2> QED BY <2>1, <2>2, <2>3, <2>4
<1> HIDE DEF d
<1>6. \A k \in Position : k >= at => ~v.W[k]["markers"]
  BY <1>2, <1>4, <1>5 DEF Before
<1>7. \A k \in Position : k > at => ~v.W[k]["cable"]
  BY <1>2, <1>3, <1>4, <1>5, Horizon DEF Before
<1>8. Before(v, at, l)
  BY <1>5, <1>6, <1>7 DEF Before
<1>9. WeightedAt(v, at, "markers", l)
  BY <1>3, <1>6 DEF WeightedAt
<1>10. WeightedAt(v, at, "cable", l)
  <2>1. CASE d = 0
    BY <1>2, <1>5, <2>1
  <2>2. CASE ~w.W[at]["cable"]
    <3>1. WeightedAt(w, at, "cable", l)
      BY <2>2 DEF WeightedAt
    <3> QED BY <1>2, <1>5, <3>1
  <2> QED BY <1>4, <2>1, <2>2
<1> QED BY <1>8, <1>9, <1>10 DEF After, Kinds, v

-----------------------------------------------------------------------------
(* An update.                                                              *)

TheWindow == [y |-> y, W |-> W]

\* Between two updates the last instant is at runCnt - 1.
Aligned ==
  /\ Times(TheWindow, runCnt - 1, lost)
  /\ \A k \in Position, kind \in Kinds : WeightedAt(TheWindow, k, kind, lost)
  /\ \A k \in Position : k >= runCnt => ~W[k]["markers"]
  /\ \A k \in Position : k >= runCnt /\ runCnt < N => ~W[k]["cable"]

LEMMA AgedAligned ==
  ASSUME IsWindow(TheWindow), runCnt \in 0..N, lost \in Nat, Aligned
  PROVE  /\ \A k \in Position : k < runCnt =>
              Window.y[k].t \in (runCnt - k)..(runCnt - k + lost)
         /\ \A k \in Position, kind \in Kinds : WeightedAt(Window, k, kind, lost)
<1>1. y \in [Position -> Instant] /\ W \in [Position -> [Kinds -> BOOLEAN]]
  BY DEF IsWindow, TheWindow
<1>2. /\ Window.W = W
      /\ \A k \in Position : /\ Window.y[k].t = Aged(y[k].t)
                             /\ Window.y[k].cable = Aged(y[k].cable)
                             /\ Window.y[k].markers = Aged(y[k].markers)
  BY <1>1, WindowEffect
<1>3. \A k \in Position : k < runCnt =>
        Window.y[k].t \in (runCnt - k)..(runCnt - k + lost)
  <2> SUFFICES ASSUME NEW k \in Position, k < runCnt
               PROVE  Window.y[k].t \in (runCnt - k)..(runCnt - k + lost)
    OBVIOUS
  <2>1. k \in Nat /\ k <= runCnt - 1
    BY Horizon
  <2>2. y[k].t \in (runCnt - 1 - k)..(runCnt - 1 - k + lost)
    BY <2>1 DEF Aligned, Times, TheWindow
  <2>3. Aged(y[k].t) = y[k].t + 1
    BY <2>1, <2>2 DEF Aged, None
  <2> QED BY <1>2, <2>1, <2>2, <2>3
<1>4. \A k \in Position, kind \in Kinds : WeightedAt(Window, k, kind, lost)
  <2> SUFFICES ASSUME NEW k \in Position, NEW kind \in Kinds, W[k][kind]
               PROVE  /\ Window.y[k][kind] \in Nat /\ Window.y[k].t \in Nat
                      /\ Window.y[k].t - Window.y[k][kind] \in 0..lost
    BY <1>2 DEF WeightedAt
  <2>1. /\ y[k][kind] \in Nat /\ y[k].t \in Nat
        /\ y[k].t - y[k][kind] \in 0..lost
    BY DEF Aligned, WeightedAt, TheWindow
  <2>2. Window.y[k][kind] = Aged(y[k][kind]) /\ Window.y[k].t = Aged(y[k].t)
    BY <1>2 DEF Kinds
  <2>3. /\ Aged(y[k][kind]) = y[k][kind] + 1
        /\ Aged(y[k].t) = y[k].t + 1
    BY <2>1 DEF Aged, None
  <2> QED BY <2>1, <2>2, <2>3
<1> QED BY <1>3, <1>4

LEMMA DefaultsAligned ==
  ASSUME IsWindow(TheWindow), runCnt \in 0..N, lost \in Nat, Aligned, execY' = 0
  PROVE  /\ Before(PutDefaults(Window, runCnt), runCnt, lost)
         /\ runCnt < N => ~PutDefaults(Window, runCnt).W[runCnt]["cable"]
<1> DEFINE v == PutDefaults(Window, runCnt)
<1>1. y \in [Position -> Instant] /\ W \in [Position -> [Kinds -> BOOLEAN]]
  BY DEF IsWindow, TheWindow
<1>2. IsWindow(Window) /\ Window.W = W
  BY <1>1, WindowEffect
<1>3. runCnt \in Position /\ runCnt \in Nat /\ execY' \in Age
  BY DEF Position, Age
<1>4. /\ IsWindow(v) /\ v.W = W
      /\ \A j \in Position : j # runCnt => v.y[j] = Window.y[j]
      /\ v.y[runCnt].t = 0
  BY <1>2, <1>3, DefaultsEffect
<1> HIDE DEF v
<1>5. /\ \A k \in Position : k < runCnt =>
           Window.y[k].t \in (runCnt - k)..(runCnt - k + lost)
      /\ \A k \in Position, kind \in Kinds : WeightedAt(Window, k, kind, lost)
  BY AgedAligned
<1>6. Times(v, runCnt, lost)
  <2> SUFFICES ASSUME NEW k \in Position, k <= runCnt
               PROVE  v.y[k].t \in (runCnt - k)..(runCnt - k + lost)
    BY DEF Times
  <2>1. CASE k = runCnt
    <3>1. v.y[k].t = 0
      BY <1>4, <2>1
    <3>2. 0 \in (runCnt - k)..(runCnt - k + lost)
      BY <1>3, <2>1
    <3> QED BY <3>1, <3>2
  <2>2. CASE k < runCnt
    <3>1. k # runCnt
      BY <1>3, <2>2, Horizon
    <3>2. v.y[k] = Window.y[k]
      BY <1>4, <3>1
    <3> QED BY <1>5, <2>2, <3>2
  <2> QED BY <1>3, <2>1, <2>2, Horizon
<1>7. \A k \in Position, kind \in Kinds : k # runCnt => WeightedAt(v, k, kind, lost)
  BY <1>2, <1>4, <1>5 DEF WeightedAt
<1>8. \A k \in Position : k >= runCnt => ~v.W[k]["markers"]
  BY <1>4 DEF Aligned
<1>9. \A k \in Position : k > runCnt => ~v.W[k]["cable"]
  BY <1>3, <1>4, Horizon DEF Aligned
<1>10. runCnt < N => ~v.W[runCnt]["cable"]
  BY <1>3, <1>4 DEF Aligned
<1>11. Before(v, runCnt, lost)
  BY <1>4, <1>6, <1>7, <1>8, <1>9 DEF Before
<1> QED BY <1>10, <1>11 DEF v

LEMMA FillType ==
  ASSUME IsWindow(TheWindow), runCnt \in 0..N, execY' \in Age,
         delay' \in [Kinds -> 0..N], NEW p \in Picture, NEW c \in Cable
  PROVE  IsWindow(Fill(p, c))
<1>1. y \in [Position -> Instant] /\ W \in [Position -> [Kinds -> BOOLEAN]]
  BY DEF IsWindow, TheWindow
<1>2. runCnt \in Position
  BY DEF Position
<1>3. IsWindow(PutDefaults(Window, runCnt))
  BY <1>1, <1>2, WindowEffect, DefaultsEffect
<1>4. IsWindow(PutPicture(PutDefaults(Window, runCnt), runCnt, p))
  BY <1>2, <1>3, PictureType
<1> QED BY <1>2, <1>4, CableType DEF Fill

\* The weight of the cable length in WN is set for one update only.
LEMMA ClearEffect ==
  ASSUME NEW w, IsWindow(w)
  PROVE  LET v == [w EXCEPT !.W[N].cable = FALSE] IN
         /\ IsWindow(v) /\ v.y = w.y
         /\ ~v.W[N]["cable"]
         /\ \A k \in Position : v.W[k]["markers"] = w.W[k]["markers"]
         /\ \A k \in Position : k # N => v.W[k] = w.W[k]
<1> DEFINE v == [w EXCEPT !.W[N].cable = FALSE]
           m == [w.W[N] EXCEPT !["cable"] = FALSE]
           x == [w.W EXCEPT ![N] = m]
<1>1. v = [w EXCEPT !.W = x]
  BY Zenon
<1>2. w.y \in [Position -> Instant] /\ w.W \in [Position -> [Kinds -> BOOLEAN]]
      /\ N \in Position
  BY Horizon DEF IsWindow
<1>3. m \in [Kinds -> BOOLEAN] /\ ~m["cable"] /\ m["markers"] = w.W[N]["markers"]
  BY <1>2 DEF Kinds
<1> HIDE DEF m
<1>4. /\ x \in [Position -> [Kinds -> BOOLEAN]]
      /\ x[N] = m /\ \A k \in Position : k # N => x[k] = w.W[k]
  BY <1>2, <1>3
<1> HIDE DEF x, v
<1>5. v = [y |-> w.y, W |-> x]
  BY <1>1 DEF IsWindow
<1>6. v.y = w.y /\ v.W = x
  BY <1>5
<1>7. IsWindow(v)
  BY <1>2, <1>4, <1>5 DEF IsWindow
<1>8. \A k \in Position : v.W[k]["markers"] = w.W[k]["markers"]
  BY <1>3, <1>4, <1>6
<1> QED BY <1>3, <1>4, <1>6, <1>7, <1>8 DEF v

LEMMA EmbedType ==
  ASSUME IsWindow(TheWindow), execY' \in Age,
         delay' \in [Kinds -> 0..N], NEW p \in Picture, NEW c \in Cable
  PROVE  IsWindow(Embed(p, c))
<1> DEFINE w == PutPicture(PutDefaults(Window, N), N, p)
           v == [w EXCEPT !.W[N].cable = FALSE]
<1>1. y \in [Position -> Instant] /\ W \in [Position -> [Kinds -> BOOLEAN]]
  BY DEF IsWindow, TheWindow
<1>2. N \in Position
  BY Horizon
<1>3. IsWindow(PutDefaults(Window, N))
  BY <1>1, <1>2, WindowEffect, DefaultsEffect
<1>4. IsWindow(w)
  BY <1>2, <1>3, PictureType
<1>5. Embed(p, c) = IF delay'["cable"] > 0 THEN PutCable(v, N, c) ELSE PutCable(w, N, c)
  BY Zenon DEF Embed
<1> HIDE DEF w
<1>6. IsWindow(v)
  BY <1>4, ClearEffect
<1> HIDE DEF v
<1>7. IsWindow(PutCable(v, N, c))
  BY <1>2, <1>6, CableType
<1>8. IsWindow(PutCable(w, N, c))
  BY <1>2, <1>4, CableType
<1> QED BY <1>5, <1>7, <1>8

LEMMA ShiftEffect ==
  ASSUME NEW w, IsWindow(w)
  PROVE  /\ IsWindow(Shift(w))
         /\ \A k \in Position : k < N => /\ k + 1 \in Position
                                         /\ Shift(w).y[k] = w.y[k + 1]
                                         /\ Shift(w).W[k] = w.W[k + 1]
         /\ Shift(w).y[N] = w.y[N] /\ Shift(w).W[N] = w.W[N]
<1> DEFINE a == [k \in Position |-> IF k < N THEN w.y[k + 1] ELSE w.y[k]]
           b == [k \in Position |-> IF k < N THEN w.W[k + 1] ELSE w.W[k]]
<1>1. \A k \in Position : k < N => k + 1 \in Position
  BY Horizon DEF Position
<1>2. w.y \in [Position -> Instant] /\ w.W \in [Position -> [Kinds -> BOOLEAN]]
  BY DEF IsWindow
<1>3. a \in [Position -> Instant] /\ b \in [Position -> [Kinds -> BOOLEAN]]
  BY <1>1, <1>2
<1>4. Shift(w) = [y |-> a, W |-> b]
  BY DEF Shift
<1>5. /\ \A k \in Position : k < N => a[k] = w.y[k + 1] /\ b[k] = w.W[k + 1]
      /\ a[N] = w.y[N] /\ b[N] = w.W[N]
  BY Horizon
<1> HIDE DEF a, b
<1>6. IsWindow(Shift(w)) /\ Shift(w).y = a /\ Shift(w).W = b
  BY <1>3, <1>4 DEF IsWindow
<1> QED BY <1>1, <1>5, <1>6

\* An update with its own measurements, while the window fills.
LEMMA FillAligned ==
  ASSUME IsWindow(TheWindow), runCnt \in 0..N, lost \in Nat, Aligned,
         runCnt < N, execY' = 0, delay' \in [Kinds -> 0..N],
         NEW p \in Picture, p.age # None => delay'["markers"] = p.age,
         NEW c \in Cable, c # None => delay'["cable"] = c
  PROVE  After(Fill(p, c), runCnt, lost)
<1> DEFINE w == PutDefaults(Window, runCnt)
           v == PutPicture(w, runCnt, p)
<1>1. runCnt \in Position
  BY DEF Position
<1>2. Before(w, runCnt, lost) /\ ~w.W[runCnt]["cable"]
  BY DefaultsAligned
<1>3. Fill(p, c) = PutCable(v, runCnt, c)
  BY DEF Fill
<1> HIDE DEF w
<1>4. Before(v, runCnt, lost) /\ v.W[runCnt]["cable"] = w.W[runCnt]["cable"]
  BY <1>1, <1>2, PictureAligned
<1> HIDE DEF v
<1> QED BY <1>1, <1>2, <1>3, <1>4, CableAligned

\* And when it is full.
LEMMA EmbedAligned ==
  ASSUME IsWindow(TheWindow), runCnt = N, lost \in Nat, Aligned,
         execY' = 0, delay' \in [Kinds -> 0..N],
         NEW p \in Picture, p.age # None => delay'["markers"] = p.age,
         NEW c \in Cable, c # None => delay'["cable"] = c
  PROVE  After(Embed(p, c), N, lost)
<1> DEFINE w == PutPicture(PutDefaults(Window, N), N, p)
           v == [w EXCEPT !.W[N].cable = FALSE]
<1>1. N \in Position /\ N \in Nat /\ runCnt \in 0..N
  BY Horizon
<1>2. Before(PutDefaults(Window, N), N, lost)
  BY <1>1, DefaultsAligned
<1>3. Before(w, N, lost)
  BY <1>1, <1>2, PictureAligned
<1>4. Embed(p, c) = IF delay'["cable"] > 0 THEN PutCable(v, N, c) ELSE PutCable(w, N, c)
  BY Zenon DEF Embed
<1> HIDE DEF w
<1>5. CASE delay'["cable"] > 0
  <2>1. IsWindow(w)
    BY <1>3 DEF Before
  <2>2. /\ IsWindow(v) /\ v.y = w.y
        /\ ~v.W[N]["cable"]
        /\ \A k \in Position : v.W[k]["markers"] = w.W[k]["markers"]
        /\ \A k \in Position : k # N => v.W[k] = w.W[k]
    BY <2>1, ClearEffect
  <2> HIDE DEF v
  <2>3. Before(v, N, lost)
    <3>1. Times(v, N, lost)
      BY <1>3, <2>2 DEF Before, Times
    <3>2. \A k \in Position, kind \in Kinds : k # N => WeightedAt(v, k, kind, lost)
      BY <1>3, <2>2 DEF Before, WeightedAt
    <3>3. \A k \in Position : k >= N => ~v.W[k]["markers"]
      BY <1>3, <2>2 DEF Before
    <3>4. \A k \in Position : k > N => ~v.W[k]["cable"]
      BY Horizon
    <3> QED BY <2>2, <3>1, <3>2, <3>3, <3>4 DEF Before
  <2> QED BY <1>1, <1>4, <1>5, <2>2, <2>3, CableAligned
<1>6. CASE delay'["cable"] = 0
  <2>1. Embed(p, c) = PutCable(w, N, c)
    BY <1>4, <1>6
  <2> QED BY <1>1, <1>3, <1>6, <2>1, CableAligned
<1>7. delay'["cable"] \in 0..N
  BY DEF Kinds
<1> QED BY <1>1, <1>5, <1>6, <1>7

-----------------------------------------------------------------------------
(* The estimator's steps.                                                  *)

MheInv ==
  /\ mhe \in {"Stopped", "Running"}
  /\ runCnt \in 0..N /\ numOfFailures \in 0..MAX_NUM_FAILURES + 1
  /\ IsWindow(TheWindow)
  /\ execY \in Age
  /\ delay \in [Kinds -> 0..N]
  /\ overruns \in 0..MaxOverruns /\ lost \in Nat
  /\ mhe = "Running" => numOfFailures <= MAX_NUM_FAILURES /\ Aligned

LEMMA PrepareEffect ==
  ASSUME MheInv, NEW ok \in BOOLEAN, NEW p \in Picture, NEW c \in Cable,
         prepareMeasurements(ok, p, c)
  PROVE  /\ execY' \in Age /\ delay' \in [Kinds -> 0..N]
         /\ ok => /\ execY' = 0
                  /\ c # None => delay'["cable"] = c
                  /\ p.age # None => delay'["markers"] = p.age
<1>1. execY' \in Age
  <2>1. execY \in Age /\ Aged(execY) \in Age /\ 0 \in Age
    BY AgedType DEF MheInv, Age
  <2> QED BY <2>1 DEF prepareMeasurements
<1>2. CASE ok
  <2> DEFINE a == IF c = None THEN 0 ELSE c
             b == IF p.age = None THEN 0 ELSE p.age
  <2>1. execY' = 0 /\ delay' = [cable |-> a, markers |-> b]
    BY <1>2 DEF prepareMeasurements
  <2>2. a \in 0..N
    BY Horizon DEF Cable
  <2>3. b \in 0..N
    <3>1. CASE p \in [age : {None}, seen : {FALSE}]
      <4>1. p.age = None
        BY <3>1
      <4> QED BY <4>1, Horizon
    <3>2. CASE p \in [age : 1..N, seen : BOOLEAN]
      <4>1. p.age \in 1..N
        BY <3>2
      <4> QED BY <4>1, Horizon
    <3> QED BY <3>1, <3>2 DEF Picture
  <2>4. (c # None => a = c) /\ (p.age # None => b = p.age)
    OBVIOUS
  <2> HIDE DEF a, b
  <2>5. delay'["cable"] = a /\ delay'["markers"] = b
    BY <2>1
  <2>6. delay' \in [Kinds -> 0..N]
    BY <2>1, <2>2, <2>3 DEF Kinds
  <2> QED BY <1>1, <2>1, <2>4, <2>5, <2>6
<1>3. CASE ~ok
  BY <1>1, <1>3 DEF prepareMeasurements, MheInv
<1> QED BY <1>2, <1>3

\* A period without an update: everything grows older.
LEMMA AgeOnly ==
  ASSUME MheInv, mhe = "Running", UNCHANGED <<runCnt, W>>, y' = Window.y,
         \/ lost' = lost + 1
         \/ lost' = lost /\ runCnt = 0
  PROVE  IsWindow(TheWindow)' /\ lost' \in Nat /\ Aligned'
<1>1. y \in [Position -> Instant] /\ W \in [Position -> [Kinds -> BOOLEAN]]
      /\ runCnt \in 0..N /\ lost \in Nat /\ Aligned
  BY DEF MheInv, IsWindow, TheWindow
<1>2. IsWindow(Window) /\ Window.W = W
  BY <1>1, WindowEffect
<1>3. TheWindow' = [y |-> Window.y, W |-> Window.W]
  BY <1>2 DEF TheWindow
<1>4. TheWindow' = Window
  BY <1>2, <1>3 DEF IsWindow
<1>5. lost' \in Nat /\ lost' >= lost /\ runCnt \in Nat
  BY <1>1
<1>6. /\ \A k \in Position : k < runCnt =>
           Window.y[k].t \in (runCnt - k)..(runCnt - k + lost)
      /\ \A k \in Position, kind \in Kinds : WeightedAt(Window, k, kind, lost)
  BY <1>1, AgedAligned DEF MheInv
<1>7. \A k \in Position : k <= runCnt - 1 =>
        Window.y[k].t \in (runCnt - 1 - k)..(runCnt - 1 - k + lost')
  <2> SUFFICES ASSUME NEW k \in Position, k <= runCnt - 1
               PROVE  Window.y[k].t \in (runCnt - 1 - k)..(runCnt - 1 - k + lost')
    OBVIOUS
  <2>1. k \in Nat /\ k < runCnt /\ lost' = lost + 1
    BY <1>5, Horizon
  <2>2. Window.y[k].t \in (runCnt - k)..(runCnt - k + lost)
    BY <1>6, <2>1
  <2> QED BY <1>1, <1>5, <2>1, <2>2
<1>8. \A k \in Position, kind \in Kinds : WeightedAt(Window, k, kind, lost')
  <2> SUFFICES ASSUME NEW k \in Position, NEW kind \in Kinds, Window.W[k][kind]
               PROVE  /\ Window.y[k][kind] \in Nat /\ Window.y[k].t \in Nat
                      /\ Window.y[k].t - Window.y[k][kind] \in 0..lost'
    BY DEF WeightedAt
  <2>1. /\ Window.y[k][kind] \in Nat /\ Window.y[k].t \in Nat
        /\ Window.y[k].t - Window.y[k][kind] \in 0..lost
    BY <1>6 DEF WeightedAt
  <2> QED BY <1>1, <1>5, <2>1
<1>9. IsWindow(TheWindow')
  BY <1>2, <1>4
<1>10. Times(TheWindow', runCnt - 1, lost')
  BY <1>4, <1>7 DEF Times
<1>11. \A k \in Position, kind \in Kinds : WeightedAt(TheWindow', k, kind, lost')
  BY <1>4, <1>8
<1>12. /\ \A k \in Position : k >= runCnt => ~W'[k]["markers"]
       /\ \A k \in Position : k >= runCnt /\ runCnt < N => ~W'[k]["cable"]
  BY <1>1 DEF Aligned
<1>13. Aligned'
  BY <1>10, <1>11, <1>12 DEF Aligned
<1> QED BY <1>5, <1>9, <1>13

LEMMA UpdateStep ==
  ASSUME MheInv, NEW ok \in BOOLEAN, NEW p \in Picture, NEW c \in Cable,
         NEW solved \in BOOLEAN, MheUpdate(ok, p, c, solved)
  PROVE  MheInv'
<1>1. /\ execY' \in Age /\ delay' \in [Kinds -> 0..N]
      /\ ok => /\ execY' = 0
               /\ c # None => delay'["cable"] = c
               /\ p.age # None => delay'["markers"] = p.age
  BY PrepareEffect DEF MheUpdate
<1>2. /\ mhe = "Running" /\ numOfFailures <= MAX_NUM_FAILURES /\ Aligned
      /\ IsWindow(TheWindow) /\ runCnt \in 0..N /\ lost \in Nat
      /\ numOfFailures \in 0..MAX_NUM_FAILURES + 1 /\ overruns \in 0..MaxOverruns
  BY DEF MheInv, MheUpdate
<1>3. /\ lost' = lost /\ overruns' = overruns
      /\ numOfFailures' = IF ok THEN numOfFailures ELSE numOfFailures + 1
  BY DEF MheUpdate
<1>4. /\ numOfFailures' \in 0..MAX_NUM_FAILURES + 1
      /\ ok => numOfFailures' <= MAX_NUM_FAILURES
      /\ lost' \in Nat /\ overruns' \in 0..MaxOverruns
  BY <1>2, <1>3, Horizon
<1>5. /\ mhe' \in {"Stopped", "Running"} /\ runCnt' \in 0..N
      /\ IsWindow(TheWindow') /\ (mhe' = "Running" => ok /\ Aligned')
  <2>1. CASE runCnt < N
    <3> DEFINE w == Fill(p, c)
    <3>1. /\ y' = w.y /\ W' = w.W /\ runCnt' = runCnt + 1
          /\ mhe' = IF ok THEN "Running" ELSE "Stopped"
      BY <2>1 DEF MheUpdate
    <3>2. IsWindow(w)
      BY <1>1, <1>2, FillType
    <3>3. ok => After(w, runCnt, lost)
      BY <1>1, <1>2, <2>1, FillAligned
    <3> HIDE DEF w
    <3>4. TheWindow' = w
      <4>1. TheWindow' = [y |-> w.y, W |-> w.W]
        BY <3>1 DEF TheWindow
      <4> QED BY <3>2, <4>1 DEF IsWindow
    <3>5. runCnt \in Nat /\ runCnt' \in 0..N /\ runCnt' - 1 = runCnt
      BY <1>2, <2>1, <3>1, Horizon
    <3>6. ASSUME ok PROVE Aligned'
      <4>1. After(w, runCnt, lost)
        BY <3>3, <3>6
      <4>2. Times(TheWindow', runCnt' - 1, lost')
        BY <1>3, <3>4, <3>5, <4>1 DEF After, Before
      <4>3. \A k \in Position, kind \in Kinds : WeightedAt(TheWindow', k, kind, lost')
        BY <1>3, <3>4, <4>1 DEF After, Before
      <4>4. \A k \in Position : k >= runCnt' => k > runCnt /\ k >= runCnt
        BY <3>1, <3>5, Horizon
      <4>5. \A k \in Position : k >= runCnt' => ~W'[k]["markers"]
        BY <3>1, <4>1, <4>4 DEF After, Before
      <4>6. \A k \in Position : k >= runCnt' => ~W'[k]["cable"]
        BY <3>1, <4>1, <4>4 DEF After, Before
      <4> QED BY <4>2, <4>3, <4>5, <4>6 DEF Aligned
    <3> QED BY <3>1, <3>2, <3>4, <3>5, <3>6
  <2>2. CASE runCnt = N
    <3> DEFINE w == Embed(p, c)
               v == Shift(w)
    <3>1. /\ y' = v.y /\ W' = v.W /\ runCnt' = N
          /\ mhe' = IF ok /\ solved THEN "Running" ELSE "Stopped"
      BY <2>2, Horizon DEF MheUpdate
    <3>2. IsWindow(w)
      BY <1>1, <1>2, EmbedType
    <3>3. ok => After(w, N, lost)
      BY <1>1, <1>2, <2>2, EmbedAligned
    <3> HIDE DEF w
    <3>4. /\ IsWindow(v)
          /\ \A k \in Position : k < N => /\ k + 1 \in Position
                                          /\ v.y[k] = w.y[k + 1]
                                          /\ v.W[k] = w.W[k + 1]
          /\ v.y[N] = w.y[N] /\ v.W[N] = w.W[N]
      BY <3>2, ShiftEffect
    <3> HIDE DEF v
    <3>5. TheWindow' = v
      <4>1. TheWindow' = [y |-> v.y, W |-> v.W]
        BY <3>1 DEF TheWindow
      <4> QED BY <3>4, <4>1 DEF IsWindow
    <3>6. ASSUME ok PROVE Aligned'
      <4>1. After(w, N, lost)
        BY <3>3, <3>6
      <4>2. Times(v, N - 1, lost)
        <5> SUFFICES ASSUME NEW k \in Position, k <= N - 1
                     PROVE  v.y[k].t \in (N - 1 - k)..(N - 1 - k + lost)
          BY DEF Times
        <5>1. k \in Nat /\ k < N /\ k + 1 <= N
          BY Horizon
        <5>2. k + 1 \in Position /\ v.y[k] = w.y[k + 1]
          BY <3>4, <5>1
        <5>3. w.y[k + 1].t \in (N - (k + 1))..(N - (k + 1) + lost)
          BY <4>1, <5>1, <5>2 DEF After, Before, Times
        <5> QED BY <5>1, <5>2, <5>3, Horizon
      <4>3. \A k \in Position, kind \in Kinds : WeightedAt(w, k, kind, lost)
        BY <4>1 DEF After, Before
      <4>4. \A k \in Position, kind \in Kinds : WeightedAt(v, k, kind, lost)
        <5> SUFFICES ASSUME NEW k \in Position
                     PROVE  \A kind \in Kinds : WeightedAt(v, k, kind, lost)
          OBVIOUS
        <5>1. CASE k < N
          BY <3>4, <4>3, <5>1 DEF WeightedAt
        <5>2. CASE k = N
          BY <3>4, <4>3, <5>2 DEF WeightedAt
        <5> QED BY <5>1, <5>2, Horizon
      <4>5. \A k \in Position : k >= N => k = N
        BY Horizon
      <4>6. \A k \in Position : k >= runCnt' => ~W'[k]["markers"]
        BY <3>1, <3>4, <4>1, <4>5, Horizon DEF After, Before
      <4>7. ~(runCnt' < N)
        BY <3>1, Horizon
      <4> QED BY <1>3, <3>1, <3>5, <4>2, <4>4, <4>6, <4>7 DEF Aligned
    <3>7. N \in 0..N
      BY Horizon
    <3> QED BY <3>1, <3>4, <3>5, <3>6, <3>7
  <2> QED BY <1>2, <2>1, <2>2, Horizon
<1> QED BY <1>1, <1>4, <1>5 DEF MheInv

LEMMA EmptyWindow ==
  LET w == [y |-> [k \in Position |-> Empty], W |-> NoWeights]
  IN  IsWindow(w) /\ \A k \in Position, kind \in Kinds : ~w.W[k][kind]
<1>1. [k \in Position |-> Empty] \in [Position -> Instant]
  BY EmptyType
<1>2. [cable |-> FALSE, markers |-> FALSE] \in [Kinds -> BOOLEAN]
  <2>1. ASSUME NEW S, NEW a \in S PROVE [cable |-> a, markers |-> a] \in [Kinds -> S]
    BY DEF Kinds
  <2> QED BY <2>1
<1>3. NoWeights \in [Position -> [Kinds -> BOOLEAN]]
  BY <1>2 DEF NoWeights
<1>4. \A k \in Position, kind \in Kinds : ~NoWeights[k][kind]
  BY DEF NoWeights, Kinds
<1> QED BY <1>1, <1>3, <1>4 DEF IsWindow

LEMMA MheStep == MheInv /\ [Next]_vars => MheInv'
<1> SUFFICES ASSUME MheInv, [Next]_vars PROVE MheInv'
  OBVIOUS
<1> DEFINE mine == <<mhe, runCnt, numOfFailures, y, W, execY, delay, overruns, lost>>
<1>1. ASSUME UNCHANGED mine PROVE MheInv'
  BY <1>1 DEF MheInv, IsWindow, TheWindow, Aligned, Times, WeightedAt
<1>2. CASE MheStart
  <2> DEFINE w == [y |-> [k \in Position |-> Empty], W |-> NoWeights]
  <2>1. IsWindow(w) /\ \A k \in Position, kind \in Kinds : ~w.W[k][kind]
    BY EmptyWindow
  <2>3. /\ mhe' = "Running" /\ runCnt' = 0 /\ numOfFailures' = 0 /\ lost' = 0
        /\ execY' = None /\ delay' = delay /\ overruns' = overruns
        /\ TheWindow' = w /\ W' = w.W
    BY <1>2 DEF MheStart, TheWindow
  <2>4. Aligned'
    <3>1. Times(w, 0 - 1, 0)
      BY Horizon DEF Times
    <3>2. \A k \in Position, kind \in Kinds : WeightedAt(w, k, kind, 0)
      BY <2>1 DEF WeightedAt
    <3> HIDE DEF w
    <3>3. /\ \A k \in Position : ~W'[k]["markers"]
          /\ \A k \in Position : ~W'[k]["cable"]
      BY <2>1, <2>3 DEF Kinds
    <3> QED BY <2>3, <3>1, <3>2, <3>3 DEF Aligned
  <2> HIDE DEF w
  <2> QED BY <2>1, <2>3, <2>4, Horizon, EmptyType DEF MheInv
<1>3. CASE MheStop
  <2>1. TheWindow' = TheWindow
    BY <1>3 DEF MheStop, TheWindow
  <2> QED BY <1>3, <2>1 DEF MheInv, MheStop
<1>4. CASE MheSkip
  <2>1. /\ mhe = "Running" /\ mhe' = mhe /\ runCnt' = runCnt /\ overruns' = overruns
        /\ UNCHANGED <<runCnt, W>> /\ y' = Window.y
    BY <1>4 DEF MheSkip
  <2>2. execY' = Aged(execY) /\ delay' = delay
    BY <1>4 DEF MheSkip, prepareMeasurements
  <2>3. execY' \in Age
    BY <2>2, AgedType DEF MheInv
  <2>4. lost' = lost + 1 \/ (lost' = lost /\ runCnt = 0)
    BY <1>4, Horizon DEF MheSkip, MheInv
  <2>5. IsWindow(TheWindow)' /\ lost' \in Nat /\ Aligned'
    BY <2>1, <2>4, AgeOnly
  <2>6. numOfFailures' \in 0..MAX_NUM_FAILURES + 1
        /\ numOfFailures' <= MAX_NUM_FAILURES
    BY <1>4, <2>1, Horizon DEF MheSkip, TooManyFailures, MheInv
  <2> QED BY <2>1, <2>2, <2>3, <2>5, <2>6 DEF MheInv
<1>5. CASE MheOverrun
  <2>1. /\ mhe = "Running" /\ mhe' = mhe /\ numOfFailures' = numOfFailures
        /\ UNCHANGED <<runCnt, W>> /\ y' = Window.y /\ lost' = lost + 1
        /\ execY' = Aged(execY) /\ delay' = delay
        /\ overruns < MaxOverruns /\ overruns' = overruns + 1
    BY <1>5 DEF MheOverrun
  <2>2. execY' \in Age
    BY <2>1, AgedType DEF MheInv
  <2>3. IsWindow(TheWindow)' /\ lost' \in Nat /\ Aligned'
    BY <2>1, AgeOnly
  <2>4. overruns' \in 0..MaxOverruns
    BY <2>1, Horizon DEF MheInv
  <2> QED BY <2>1, <2>2, <2>3, <2>4 DEF MheInv
<1>6. CASE \E ok, solved \in BOOLEAN, p \in Picture, c \in Cable :
             MheUpdate(ok, p, c, solved)
  BY <1>6, UpdateStep
<1>7. CASE MpcStart
  BY <1>1, <1>7 DEF MpcStart, mheVars
<1>8. CASE MpcStop
  BY <1>1, <1>8 DEF MpcStop, mheVars
<1>9. CASE \E status \in {"ok", "max_nwsr", "failed"}, late \in BOOLEAN :
             MpcUpdate(status, late)
  BY <1>1, <1>9 DEF MpcUpdate, mheVars
<1>10. CASE UNCHANGED vars
  BY <1>1, <1>10 DEF vars, mheVars
<1> QED BY <1>2, <1>3, <1>4, <1>5, <1>6, <1>7, <1>8, <1>9, <1>10 DEF Next

LEMMA MheInit == Init => MheInv
<1> SUFFICES ASSUME Init PROVE MheInv
  OBVIOUS
<1>1. IsWindow(TheWindow)
  BY EmptyWindow DEF Init, TheWindow
<1>2. delay \in [Kinds -> 0..N]
  BY Horizon DEF Init
<1> QED BY <1>1, <1>2, Horizon, EmptyType DEF Init, MheInv

-----------------------------------------------------------------------------
(* The controller's steps.                                                 *)

MpcInv ==
  /\ estimate \in BOOLEAN /\ triggered \in BOOLEAN
  /\ mpc \in {"Stopped", "Running"} /\ mpcCnt \in 0..Grace + 1
  /\ controls \in {"neutral", "derivative"}
  /\ NeutralUnlessReady

LEMMA MpcStep == MpcInv /\ [Next]_vars => MpcInv'
<1> SUFFICES ASSUME MpcInv, [Next]_vars PROVE MpcInv'
  OBVIOUS
<1>1. ASSUME UNCHANGED mpcVars, estimate' \in BOOLEAN, triggered' \in BOOLEAN,
             mpc = "Running" /\ (estimate \/ triggered) => estimate' \/ triggered'
      PROVE  MpcInv'
  BY <1>1 DEF MpcInv, mpcVars, NeutralUnlessReady
<1>2. CASE MheStart \/ MheStop \/ MheSkip \/ MheOverrun \/ UNCHANGED vars
  <2>1. UNCHANGED <<mpcVars, estimate, triggered>>
    BY <1>2 DEF MheStart, MheStop, MheSkip, MheOverrun, vars
  <2> QED BY <1>1, <2>1 DEF MpcInv
<1>3. CASE \E ok, solved \in BOOLEAN, p \in Picture, c \in Cable :
             MheUpdate(ok, p, c, solved)
  <2>1. PICK ok \in BOOLEAN, solved \in BOOLEAN, p \in Picture, c \in Cable :
               MheUpdate(ok, p, c, solved)
    BY <1>3
  <2>2. UNCHANGED mpcVars
    BY <2>1 DEF MheUpdate
  <2>3. \/ UNCHANGED <<estimate, triggered>>
        \/ estimate' = solved /\ triggered' = (mpc = "Running")
    BY <2>1 DEF MheUpdate
  <2>4. (mpc = "Running") \in BOOLEAN
    OBVIOUS
  <2>5. estimate' \in BOOLEAN /\ triggered' \in BOOLEAN
    BY <2>3, <2>4, Zenon DEF MpcInv
  <2>6. mpc = "Running" /\ (estimate \/ triggered) => estimate' \/ triggered'
    BY <2>3, Zenon
  <2> QED BY <1>1, <2>2, <2>5, <2>6
<1>4. CASE MpcStart
  BY <1>4, Horizon DEF MpcStart, MpcInv, NeutralUnlessReady
<1>5. CASE MpcStop
  BY <1>5 DEF MpcStop, MpcStops, MpcInv, NeutralUnlessReady
<1>6. CASE \E status \in {"ok", "max_nwsr", "failed"}, late \in BOOLEAN :
             MpcUpdate(status, late)
  <2>1. PICK status \in {"ok", "max_nwsr", "failed"}, late \in BOOLEAN :
               MpcUpdate(status, late)
    BY <1>6
  <2>2. /\ mpc = "Running" /\ triggered' = FALSE /\ estimate' = estimate
        /\ mpcCnt' = IF mpcCnt <= Grace THEN mpcCnt + 1 ELSE mpcCnt
    BY <2>1 DEF MpcUpdate
  <2>3. \/ MpcStops
        \/ /\ controls' = IF mpcCnt = 0 THEN controls ELSE Solved(status)
           /\ mpc' = mpc /\ estimate
    BY <2>1 DEF MpcUpdate, Ready
  <2>4. mpcCnt' \in 0..Grace + 1 /\ (mpcCnt > 0 => mpcCnt' > 1)
    <3>1. mpcCnt \in 0..Grace + 1 /\ Grace \in Nat /\ Grace > 0
      BY EstimatorAssumption DEF MpcInv
    <3>2. CASE mpcCnt <= Grace
      BY <2>2, <3>1, <3>2
    <3>3. CASE ~(mpcCnt <= Grace)
      BY <2>2, <3>1, <3>3
    <3> QED BY <3>2, <3>3
  <2>5. CASE MpcStops
    BY <2>2, <2>4, <2>5 DEF MpcStops, MpcInv, NeutralUnlessReady
  <2>6. CASE /\ controls' = IF mpcCnt = 0 THEN controls ELSE Solved(status)
             /\ mpc' = mpc /\ estimate
    <3>1. controls' \in {"neutral", "derivative"}
      BY <2>6 DEF MpcInv, Solved
    <3>2. controls' = "derivative" => mpcCnt > 0
      BY <2>6 DEF MpcInv, NeutralUnlessReady
    <3>3. mpc' = "Running" /\ mpcCnt' \in 0..Grace + 1
          /\ (controls' = "derivative" => mpcCnt' > 1)
      BY <2>2, <2>4, <2>6, <3>2
    <3>4. estimate' /\ estimate' \in BOOLEAN /\ triggered' \in BOOLEAN
      BY <2>2, <2>6 DEF MpcInv
    <3> QED BY <3>1, <3>3, <3>4 DEF MpcInv, NeutralUnlessReady
  <2> QED BY <2>3, <2>5, <2>6
<1> QED BY <1>2, <1>3, <1>4, <1>5, <1>6 DEF Next

-----------------------------------------------------------------------------
(* The theorems.                                                           *)

LEMMA Inductive == Spec => [](MheInv /\ MpcInv)
<1>1. Init => MheInv /\ MpcInv
  <2> SUFFICES ASSUME Init PROVE MpcInv
    BY MheInit
  <2>1. estimate \in BOOLEAN /\ triggered \in BOOLEAN
    BY Zenon DEF Init
  <2> QED BY <2>1, Horizon DEF Init, MpcInv, NeutralUnlessReady
<1>2. MheInv /\ MpcInv /\ [Next]_vars => (MheInv /\ MpcInv)'
  BY MheStep, MpcStep
<1> QED BY <1>1, <1>2, PTL DEF Spec

\* The type invariant: the failure counter stays within one of its limit, and
\* the controller's counter, the window and the delays within their ranges.
THEOREM TypeCorrect == Spec => []TypeOK
<1>1. MheInv /\ MpcInv => TypeOK
  <2> SUFFICES ASSUME MheInv, MpcInv PROVE TypeOK
    OBVIOUS
  <2>1. y \in [Position -> Instant] /\ W \in [Position -> [Kinds -> BOOLEAN]]
    BY DEF MheInv, IsWindow, TheWindow
  <2> QED BY <2>1 DEF MheInv, MpcInv, TypeOK, Age
<1> QED BY <1>1, Inductive, PTL

\* For every horizon, delay and pattern of lost periods, the marker positions
\* and the cable length that count are weighed against the other measurements
\* of the instant at which they were taken (prepareMeasurements' embedding and
\* updateHook's shift of the window).
THEOREM LateMeasurementsAreAligned == Spec => []LateAreAligned
<1>1. MheInv => LateAreAligned
  <2> SUFFICES ASSUME MheInv, mhe = "Running", NEW k \in 0..N-1, NEW kind \in Kinds,
                      W[k][kind]
               PROVE  /\ y[k][kind] # None /\ y[k].t # None
                      /\ y[k].t - y[k][kind] \in 0..lost
    BY DEF LateAreAligned
  <2>1. k \in Position
    BY Horizon DEF Position
  <2>2. WeightedAt(TheWindow, k, kind, lost)
    BY <2>1 DEF MheInv, Aligned
  <2>3. y[k][kind] \in Nat /\ y[k].t \in Nat /\ y[k].t - y[k][kind] \in 0..lost
    BY <2>2 DEF WeightedAt, TheWindow
  <2> QED BY <2>3 DEF None
<1> QED BY <1>1, Inductive, PTL

\* Whatever the solver, the estimator and the operator do, derivatives are on
\* the port "controls" only while the controller runs and has solved its problem
\* at least once (updateHook's first round and stopHook), and with an estimate
\* that is not ready only until the update it has triggered (updateHook's abort).
THEOREM NoControlsWithoutReadiness == Spec => []NeutralUnlessReady
<1>1. MpcInv => NeutralUnlessReady
  BY DEF MpcInv
<1> QED BY <1>1, Inductive, PTL
=============================================================================
