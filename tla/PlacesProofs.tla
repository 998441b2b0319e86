---------------------------- MODULE PlacesProofs ----------------------------
(***************************************************************************)
(* A query about any number of hits and places: nothing is requested that  *)
(* is not about a hit, and the answer that is printed has the weather and  *)
(* all of the places it should.                                            *)
(***************************************************************************)
EXTENDS Places, TLAPS

\* Nothing is requested before there is a choice, and a hit can be chosen
\* only when the coordinates of all of them are known.
Phases ==
  /\ main \in {"start", "choosing"} =>
       chosen = 0 /\ weather = "none" /\ area = "none"
  /\ main = "choosing" => coords = 1 .. count
  /\ main = "joining" => chosen # 0

\* Nothing is listed before the places around are known.
NothingFound == area \in {"none", "asked"} => descriptions = <<>> /\ places = <<>>

IInv == TypeOK /\ RequestsAboutHits /\ Phases /\ NothingFound

\* Nothing has been requested at the start.
LEMMA InitInv == Init => IInv
<1> SUFFICES ASSUME Init PROVE IInv
  OBVIOUS
<1>1. TypeOK
  BY ConstantsAssumption DEF Init, TypeOK
<1>2. RequestsAboutHits
  BY DEF Init, RequestsAboutHits
<1>3. Phases /\ NothingFound
  BY DEF Init, Phases, NothingFound
<1> QED
  BY <1>1, <1>2, <1>3 DEF IInv

\* A round of the loop is about one of the places around.
LEMMA RoundsInRange == TypeOK => Rounds \in 0 .. features
BY ConstantsAssumption DEF TypeOK, Rounds

\* Every step keeps the invariant.
LEMMA NextInv == IInv /\ [Next]_vars => IInv'
<1> SUFFICES ASSUME IInv, [Next]_vars PROVE IInv'
  OBVIOUS
<1> USE ConstantsAssumption DEF IInv
<1>1. CASE getPlaces
  <2>1. TypeOK'
    <3>1. chosen = 0
      BY <1>1 DEF getPlaces, Phases
    <3>2. count' \in 0 .. MaxHits /\ coords' \subseteq 1 .. MaxHits
      <4>1. CASE UNCHANGED <<count, coords>>
        BY <4>1 DEF TypeOK
      <4>2. ASSUME NEW n \in 0 .. MaxHits, count' = n, coords' = 1 .. n
            PROVE  count' \in 0 .. MaxHits /\ coords' \subseteq 1 .. MaxHits
        BY <4>2
      <4> QED
        BY <1>1, <4>1, <4>2 DEF getPlaces
    <3> QED
      BY <1>1, <3>1, <3>2 DEF getPlaces, areaVars, TypeOK
  <2>2. RequestsAboutHits'
    BY <1>1 DEF getPlaces, areaVars, RequestsAboutHits, Phases
  <2>3. Phases' /\ NothingFound'
    BY <1>1 DEF getPlaces, areaVars, Phases, NothingFound
  <2> QED
    BY <2>1, <2>2, <2>3
<1>2. CASE choose
  <2>1. TypeOK'
    BY <1>2 DEF choose, TypeOK, Phases
  <2>2. RequestsAboutHits'
    BY <1>2 DEF choose, TypeOK, RequestsAboutHits, Phases
  <2>3. Phases' /\ NothingFound'
    BY <1>2 DEF choose, TypeOK, Phases, NothingFound
  <2> QED
    BY <2>1, <2>2, <2>3
<1>3. CASE combine
  <2>1. TypeOK'
    BY <1>3 DEF combine, areaVars, TypeOK
  <2>2. RequestsAboutHits'
    BY <1>3 DEF combine, areaVars, RequestsAboutHits, Done
  <2>3. Phases' /\ NothingFound'
    BY <1>3 DEF combine, areaVars, Phases, NothingFound
  <2> QED
    BY <2>1, <2>2, <2>3
<1>4. CASE getWeather
  <2>1. TypeOK'
    BY <1>4 DEF getWeather, areaVars, TypeOK
  <2>2. RequestsAboutHits'
    BY <1>4 DEF getWeather, areaVars, RequestsAboutHits, Done,
                Phases
  <2>3. Phases' /\ NothingFound'
    BY <1>4 DEF getWeather, areaVars, Phases, NothingFound
  <2> QED
    BY <2>1, <2>2, <2>3
<1>5. CASE placesInArea
  <2>1. descriptions = <<>> /\ places = <<>>
    BY <1>5 DEF placesInArea, NothingFound
  <2>2. TypeOK'
    <3>1. features' \in 0 .. MaxFeatures /\ named' \subseteq 1 .. features'
      BY <1>5 DEF placesInArea, TypeOK
    <3>2. places' \in Seq(1 .. features')
      BY <1>5, <2>1 DEF placesInArea
    <3> QED
      BY <1>5, <3>1, <3>2 DEF placesInArea, TypeOK
  <2>3. RequestsAboutHits'
    BY <1>5 DEF placesInArea, RequestsAboutHits, Done
  <2>4. Phases' /\ NothingFound'
    BY <1>5 DEF placesInArea, Phases, NothingFound
  <2> QED
    BY <2>2, <2>3, <2>4
<1>6. CASE describe
  <2>1. TypeOK'
    <3>1. ASSUME NEW d \in {"text", "empty", "none"},
                 descriptions' = Append(descriptions, d)
          PROVE  descriptions' \in Seq({"text", "empty", "none"})
      BY <3>1 DEF TypeOK
    <3>2. descriptions' \in Seq({"text", "empty", "none"})
      BY <1>6, <3>1 DEF describe, TypeOK
    <3>3. Len(descriptions) + 1 \in 1 .. features
      <4>1. Len(descriptions) \in Nat /\ Len(descriptions) + 1 <= Rounds
        BY <1>6 DEF describe, TypeOK
      <4>2. Rounds \in 0 .. features /\ features \in Nat
        BY RoundsInRange DEF TypeOK
      <4> QED
        BY <4>1, <4>2
    <3>4. Append(places, Len(descriptions) + 1) \in Seq(1 .. features)
      BY <3>3 DEF TypeOK
    <3>5. places' \in Seq(1 .. features')
      BY <1>6, <3>4 DEF describe, TypeOK
    <3> QED
      BY <1>6, <3>2, <3>5 DEF describe, TypeOK
  <2>2. RequestsAboutHits'
    <3>1. UNCHANGED <<main, count, coords, chosen, weather>>
      BY <1>6 DEF describe
    <3>2. area = "loop" /\ area' \in {"loop", "failed"}
      BY <1>6 DEF describe
    <3> QED
      BY <3>1, <3>2 DEF RequestsAboutHits, Done
  <2>3. Phases' /\ NothingFound'
    BY <1>6 DEF describe, Phases, NothingFound
  <2> QED
    BY <2>1, <2>2, <2>3
<1>7. CASE areaDone
  <2>1. TypeOK'
    BY <1>7 DEF areaDone, TypeOK
  <2>2. RequestsAboutHits'
    BY <1>7 DEF areaDone, RequestsAboutHits, Done
  <2>3. Phases' /\ NothingFound'
    BY <1>7 DEF areaDone, Phases, NothingFound
  <2> QED
    BY <2>1, <2>2, <2>3
<1>8. CASE UNCHANGED vars
  BY <1>8 DEF vars, TypeOK, RequestsAboutHits, Done, Phases,
              NothingFound
<1> QED
  BY <1>1, <1>2, <1>3, <1>4, <1>5, <1>6, <1>7, <1>8 DEF Next, Area

\* The invariant holds throughout.
LEMMA Inductive == Spec => []IInv
BY InitInv, NextInv, PTL DEF Spec

\* Every variable keeps its type; the choice is within the hits.
\* PlacesInterface.java:31-43.
THEOREM TypeCorrect == Spec => []TypeOK
<1>1. IInv => TypeOK
  BY DEF IInv
<1> QED
  BY <1>1, Inductive, PTL

\* Whatever is requested is about a hit whose coordinates are known, and with
\* no hit nothing is.  PlacesInterface.java:37-61, Places.java:98-108.
THEOREM OnlyHitsRequested == Spec => []RequestsAboutHits
<1>1. IInv => RequestsAboutHits
  BY DEF IInv
<1> QED
  BY <1>1, Inductive, PTL

(***************************************************************************)
(* The answer.                                                             *)
(***************************************************************************)

\* The list so far is that of the places asked about so far, in their order.
AsFound ==
  /\ {places[j] : j \in DOMAIN places} = {k \in DOMAIN descriptions : Wanted(k)}
  /\ \A i, j \in DOMAIN places : i < j => places[i] < places[j]

\* A list that is ready is that of all rounds, and nothing is printed before
\* both requests have their result.
Ready ==
  /\ area = "ok" => Len(descriptions) = Rounds
  /\ main = "answered" => weather = "ok" /\ area = "ok"

\* A round adds the place it is about, or none, and changes nothing of what
\* earlier rounds have added.
LEMMA describeAsFound ==
  ASSUME TypeOK, AsFound, describe
  PROVE  AsFound'
<1> DEFINE k == Len(descriptions) + 1
<1>1. /\ descriptions \in Seq({"text", "empty", "none"})
      /\ places \in Seq(1 .. features)
      /\ k \in Nat /\ DOMAIN descriptions = 1 .. k - 1
  BY DEF TypeOK
<1>2. UNCHANGED named
  BY DEF describe
<1>3. CASE UNCHANGED <<descriptions, places>>
  BY <1>2, <1>3 DEF AsFound, Wanted
<1>4. ASSUME NEW d \in {"text", "empty", "none"},
             descriptions' = Append(descriptions, d),
             places' = IF k \in named /\ d # "none" THEN Append(places, k)
                                                    ELSE places
      PROVE  AsFound'
  <2>1. /\ DOMAIN descriptions' = 1 .. k
        /\ \A n \in 1 .. k - 1 : descriptions'[n] = descriptions[n]
        /\ descriptions'[k] = d
    BY <1>1, <1>4
  <2>2. \A j \in DOMAIN places : places[j] \in 1 .. k - 1
    BY <1>1 DEF AsFound
  <2>3. CASE k \in named /\ d # "none"
    <3>1. /\ DOMAIN places' = 1 .. Len(places) + 1
          /\ DOMAIN places = 1 .. Len(places)
          /\ \A j \in DOMAIN places : places'[j] = places[j]
          /\ places'[Len(places) + 1] = k
      BY <1>1, <1>4, <2>3
    <3>2. {places'[j] : j \in DOMAIN places'}
            = {places[j] : j \in DOMAIN places} \cup {k}
      BY <1>1, <3>1
    <3>3. {n \in DOMAIN descriptions' : Wanted(n)'}
            = {n \in DOMAIN descriptions : Wanted(n)} \cup {k}
      BY <1>1, <1>2, <2>1, <2>3 DEF Wanted
    <3>4. \A i, j \in DOMAIN places' : i < j => places'[i] < places'[j]
      BY <1>1, <2>2, <3>1 DEF AsFound
    <3> QED
      BY <1>2, <3>2, <3>3, <3>4 DEF AsFound
  <2>4. CASE ~(k \in named /\ d # "none")
    <3>1. places' = places
      BY <1>4, <2>4
    <3>2. {n \in DOMAIN descriptions' : Wanted(n)'}
            = {n \in DOMAIN descriptions : Wanted(n)}
      BY <1>1, <1>2, <2>1, <2>4 DEF Wanted
    <3> QED
      BY <1>2, <3>1, <3>2 DEF AsFound
  <2> QED
    BY <2>3, <2>4
<1> QED
  BY <1>3, <1>4 DEF describe

\* The list is begun empty, and changes only by rounds.
LEMMA NextAsFound ==
  ASSUME IInv, AsFound, [Next]_vars
  PROVE  AsFound'
<1>1. CASE describe
  BY <1>1, describeAsFound DEF IInv
<1>2. CASE placesInArea
  <2>1. descriptions' = <<>> /\ places' = <<>>
    BY <1>2 DEF placesInArea, IInv, NothingFound
  <2> QED
    BY <2>1 DEF AsFound
<1>3. CASE getPlaces \/ choose \/ combine \/ getWeather \/ areaDone
           \/ UNCHANGED vars
  <2>1. UNCHANGED <<named, descriptions, places>>
    BY <1>3
    DEF getPlaces, choose, combine, getWeather, areaDone, areaVars, vars
  <2> QED
    BY <2>1 DEF AsFound, Wanted
<1> QED
  BY <1>1, <1>2, <1>3 DEF Next, Area

\* The loop ends after its last round, and the results once there stay.
LEMMA NextReady ==
  ASSUME IInv, Ready, [Next]_vars
  PROVE  Ready'
<1>1. CASE areaDone
  BY <1>1 DEF areaDone, Ready, Rounds
<1>2. CASE placesInArea \/ describe
  <2>1. area \in {"asked", "loop"} /\ area' # "ok"
    BY <1>2 DEF placesInArea, describe
  <2>2. UNCHANGED <<main, weather>>
    BY <1>2 DEF placesInArea, describe
  <2> QED
    BY <2>1, <2>2 DEF Ready
<1>3. CASE choose
  BY <1>3 DEF choose, Ready, Rounds
<1>4. CASE getPlaces \/ combine \/ getWeather \/ UNCHANGED vars
  <2>1. UNCHANGED <<area, features, descriptions>>
    BY <1>4 DEF getPlaces, combine, getWeather, areaVars, vars
  <2>2. main' = "answered" => weather' = "ok" /\ area' = "ok"
    BY <1>4 DEF getPlaces, combine, getWeather, areaVars, vars, Ready
  <2> QED
    BY <2>1, <2>2 DEF Ready, Rounds
<1> QED
  BY <1>1, <1>2, <1>3, <1>4 DEF Next, Area

\* What is ready is complete: the rounds are those of the first places.
LEMMA ReadyComplete ==
  ASSUME TypeOK, AsFound, Ready
  PROVE  AnswerComplete
<1> SUFFICES ASSUME main = "answered" PROVE AnswerComplete
  BY DEF AnswerComplete
<1>1. weather = "ok" /\ Len(descriptions) = Rounds
  BY DEF Ready
<1>2. DOMAIN descriptions = 1 .. Rounds
  BY <1>1 DEF TypeOK
<1>3. FirstPlaces = 1 .. Rounds
  BY ConstantsAssumption DEF TypeOK, FirstPlaces, Rounds
<1> QED
  BY <1>1, <1>2, <1>3 DEF AsFound, AnswerComplete

\* The answer that is printed has the weather and, once each and in the order
\* they came in, all those of the first places, however many there are, that
\* have a name and an extract.  PlacesInterface.java:63-74, Places.java:58-72.
THEOREM AnswerIsComplete == Spec => []AnswerComplete
<1>1. Init => AsFound /\ Ready
  BY DEF Init, AsFound, Ready
<1>2. IInv /\ AsFound /\ Ready /\ [Next]_vars => AsFound' /\ Ready'
  BY NextAsFound, NextReady
<1>3. IInv /\ AsFound /\ Ready => AnswerComplete
  BY ReadyComplete DEF IInv
<1> QED
  BY <1>1, <1>2, <1>3, Inductive, PTL DEF Spec
=============================================================================
