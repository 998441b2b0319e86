------------------------------- MODULE Places -------------------------------
(***************************************************************************)
(* Places: one query.  The main thread looks a name up, lets the user      *)
(* choose among the hits and starts two requests about the choice, which   *)
(* run side by side: the weather, and the interesting places around, one   *)
(* more request for each of these.  It then waits for both of them.        *)
(*                                                                         *)
(* What is requested may come, or not: no network, a timeout of the HTTP   *)
(* client, or an answer that is not what is expected all throw.            *)
(***************************************************************************)
EXTENDS Naturals, Sequences

CONSTANTS
  MAX_PLACES_COUNT,
  MaxHits,       \* bound on the hits for a name
  MaxFeatures    \* bound on the places around

ASSUME ConstantsAssumption ==
  /\ MAX_PLACES_COUNT \in Nat
  /\ MaxHits \in Nat /\ MaxFeatures \in Nat

VARIABLES
  main,          \* where the main thread is, or how it has ended
  count,         \* the hits printed, numbered from 1
  coords,        \* the numbers that have coordinates
  chosen,        \* finalChosenPlace, 0 before there is one
  weather,       \* weatherEvent
  area,          \* placesAndDescriptionEvent
  features,      \* how many places are around
  named,         \* those of them that have a name
  descriptions,  \* what was found out about the first ones
  places         \* placesAndDescription

vars == <<main, count, coords, chosen, weather, area, features, named,
          descriptions, places>>

areaVars == <<area, features, named, descriptions, places>>

Init == /\ main = "start"
        /\ count = 0 /\ coords = {} /\ chosen = 0
        /\ weather = "none" /\ area = "none"
        /\ features = 0 /\ named = {}
        /\ descriptions = <<>> /\ places = <<>>

(***************************************************************************)
(* The main thread.                                                        *)
(***************************************************************************)

\* Variant with a bug: the coordinates are numbered from 0.
getPlacesFromZero ==
  /\ main = "start"
  /\ main' = "choosing"
  /\ \E n \in 0 .. MaxHits : count' = n /\ coords' = {k \in 0 .. n : k < n}
  /\ UNCHANGED <<chosen, weather, areaVars>>

\* The keys are read and the name looked up; a hit gets its number and its
\* coordinates in the same round.
getPlaces ==
  /\ main = "start"
  /\ \/ /\ main' = "choosing"
        /\ \E n \in 0 .. MaxHits : count' = n /\ coords' = 1 .. n
     \/ main' = "failed" /\ UNCHANGED <<count, coords>>
  /\ UNCHANGED <<chosen, weather, areaVars>>

\* Variant with a bug: the choice is not compared with the count.
chooseAny ==
  /\ main = "choosing"
  /\ main' = "joining"
  /\ chosen' \in 1 .. MaxHits + 1
  /\ weather' = "asked" /\ area' = "asked"
  /\ UNCHANGED <<count, coords, features, named, descriptions, places>>

\* The user answers.  A number out of range is asked for again, which changes
\* nothing; what is no number throws.
choose ==
  /\ main = "choosing"
  /\ \/ /\ main' = "joining"
        /\ chosen' \in {k \in 1 .. MaxHits + 1 : k <= count}
        /\ weather' = "asked" /\ area' = "asked"
     \/ main' = "failed" /\ UNCHANGED <<chosen, weather, area>>
  /\ UNCHANGED <<count, coords, features, named, descriptions, places>>

Done(event) == event \in {"ok", "failed"}

\* Variants with a bug: the answer waits for the weather alone; a failure is
\* never passed on.
combineWeather ==
  /\ main = "joining" /\ Done(weather)
  /\ main' = IF weather = "ok" THEN "answered" ELSE "failed"
  /\ UNCHANGED <<count, coords, chosen, weather, areaVars>>
combineResults ==
  /\ main = "joining" /\ weather = "ok" /\ area = "ok"
  /\ main' = "answered"
  /\ UNCHANGED <<count, coords, chosen, weather, areaVars>>

\* thenCombine runs its function, which prints both results, when both events
\* have one; when one has failed, get() throws once the other has ended too.
combine ==
  /\ main = "joining" /\ Done(weather) /\ Done(area)
  /\ main' = IF weather = "ok" /\ area = "ok" THEN "answered" ELSE "failed"
  /\ UNCHANGED <<count, coords, chosen, weather, areaVars>>

(***************************************************************************)
(* The two requests, on threads of the common pool.  coords.get() of a     *)
(* number without coordinates is null, and its use throws.                 *)
(***************************************************************************)
getWeather ==
  /\ weather = "asked"
  /\ \/ chosen \in coords /\ weather' = "ok"
     \/ weather' = "failed"
  /\ UNCHANGED <<main, count, coords, chosen, areaVars>>

\* placesInArea up to the loop.
placesInArea ==
  /\ area = "asked"
  /\ \/ /\ chosen \in coords
        /\ area' = "loop"
        /\ \E n \in 0 .. MaxFeatures : /\ features' = n
                                       /\ named' \in SUBSET (1 .. n)
     \/ area' = "failed" /\ UNCHANGED <<features, named>>
  /\ UNCHANGED <<main, count, coords, chosen, weather, descriptions, places>>

\* Variant with a bug: the limit is forgotten.
RoundsAll == features

\* At most MAX_PLACES_COUNT of the places around are asked about.
Rounds == IF features < MAX_PLACES_COUNT THEN features ELSE MAX_PLACES_COUNT

\* A round of the loop, with placeDescription.  An answer without an extract,
\* an error among them, counts as "none"; an extract that is empty does not,
\* since toString() keeps the quotes around it.
describe ==
  LET k == Len(descriptions) + 1 IN
  /\ area = "loop" /\ k <= Rounds
  /\ \/ \E d \in {"text", "empty", "none"} :
          /\ descriptions' = Append(descriptions, d)
          /\ places' = IF k \in named /\ d # "none" THEN Append(places, k)
                                                    ELSE places
          /\ UNCHANGED area
     \/ area' = "failed" /\ UNCHANGED <<descriptions, places>>
  /\ UNCHANGED <<main, count, coords, chosen, weather, features, named>>

areaDone ==
  /\ area = "loop" /\ Len(descriptions) = Rounds
  /\ area' = "ok"
  /\ UNCHANGED <<main, count, coords, chosen, weather, features, named,
                 descriptions, places>>

Area == placesInArea \/ describe \/ areaDone

Next == getPlaces \/ choose \/ combine \/ getWeather \/ Area

\* Every request comes to an end, the HTTP client has timeouts; the user need
\* not answer.
Fairness == /\ WF_vars(getPlaces) /\ WF_vars(combine)
            /\ WF_vars(getWeather) /\ WF_vars(Area)

Spec == Init /\ [][Next]_vars /\ Fairness
-----------------------------------------------------------------------------
\* Every variable keeps its type; the choice is within the hits.
\* PlacesInterface.java:31-43.
TypeOK ==
  /\ main \in {"start", "choosing", "joining", "answered", "failed"}
  /\ count \in 0 .. MaxHits /\ coords \subseteq 1 .. MaxHits
  /\ chosen \in 0 .. count
  /\ weather \in {"none", "asked", "ok", "failed"}
  /\ area \in {"none", "asked", "loop", "ok", "failed"}
  /\ features \in 0 .. MaxFeatures /\ named \subseteq 1 .. features
  /\ descriptions \in Seq({"text", "empty", "none"})
  /\ places \in Seq(1 .. features)

\* Whatever is requested is about a hit whose coordinates are known; with no
\* hit nothing is ever requested and nothing answered, only an input that
\* throws ends the program.  PlacesInterface.java:37-61, Places.java:98-108.
RequestsAboutHits ==
  /\ {weather, area} # {"none"} => chosen \in coords
  /\ count = 0 => main \notin {"joining", "answered"}

\* The places that may be listed, and those of them that should be.
FirstPlaces == {k \in 1 .. features : k <= MAX_PLACES_COUNT}
Wanted(k) == k \in named /\ descriptions[k] # "none"

\* The answer that is printed is complete: the weather, and, once each and in
\* the order they came in, all those of the first MAX_PLACES_COUNT places around
\* that have a name and an extract, every one of which has been asked about.
\* Neither a place that is left out nor the limit loses another one, and
\* nothing is printed while a request is under way or after one has failed.
\* PlacesInterface.java:63-74, Places.java:58-72, 79-85.
AnswerComplete ==
  main = "answered" =>
    /\ weather = "ok"
    /\ DOMAIN descriptions = FirstPlaces
    /\ {places[j] : j \in DOMAIN places} = {k \in FirstPlaces : Wanted(k)}
    /\ \A i, j \in DOMAIN places : i < j => places[i] < places[j]

\* A choice is answered or the program ends with an error, whatever request
\* fails.  PlacesInterface.java:63-74.
ChoiceAnswered == main = "joining" ~> main \in {"answered", "failed"}
=============================================================================
