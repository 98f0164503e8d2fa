----------------------------- MODULE MCDataset -----------------------------
(***************************************************************************)
(* Instances of the dataset build.  A day has 24 minutes of an hour each;  *)
(* a diary day begins at 4.  Places are numbers: households 10 to 50, a    *)
(* workplace 60, a school 70, a daycare 80, mapped features from 100       *)
(* (CBSA 1) and 200 (CBSA 2); the tens are where a place is.               *)
(***************************************************************************)
EXTENDS DatasetBuild

Categories == <<"shopping", "meal", "healthcare", "recreation", "social", "errand">>
Places == {10, 20, 30, 40, 50, 60, 70, 80} \cup {100 * c + 10 * k + o : c \in {1, 2}, k \in 1..6, o \in {0, 5}} \cup {116}

Hours == [pair \in Places \X Places |->
  LET far == ((pair[1] % 100) \div 10) - ((pair[2] % 100) \div 10)
      between == IF far < 0 THEN -far ELSE far
  IN IF between < 1 THEN 1 ELSE IF between > 4 THEN 4 ELSE between]

Shuffled == [use \in {"draw", "removal"} |->
  [id \in 1..9 |-> IF use = "draw" THEN (4 * id) % 11 ELSE 9 - id]]

Poi(c, k, base) ==
  [id |-> [kind \in {Categories[k], "other"} |-> 100 * c + 10 * k + (IF kind = "other" THEN 5 ELSE 0)],
   category |-> Categories[k], base |-> base, cbsa |-> c, cell |-> k % 2]

Map(base) == {Poi(c, k, base) : c \in {1, 2}, k \in 1..6}

Person(id, age, assigned, cbsa) ==
  [id |-> id, hh |-> 10 * id, age |-> age, sex |-> 1 + (id % 2), assigned |-> assigned,
   site |-> CASE assigned = "none" -> Nowhere [] assigned = "work" -> 60
              [] assigned = "school" -> 70 [] assigned = "daycare" -> 80,
   cbsa |-> cbsa, cell |-> 1]

Adults(cbsaOf) ==
  {Person(1, 30, "work", cbsaOf[1]), Person(2, 70, "none", cbsaOf[2]), Person(3, 8, "school", cbsaOf[3]),
   Person(4, 40, "work", cbsaOf[4]), Person(5, 3, "daycare", cbsaOf[5])}

Network(kind, members) == [kind |-> kind, members |-> members]
TieRows == {Network("household", <<1, 2>>), Network("school", <<4, 3, 2>>), Network("household", <<5, 1, 5>>),
            Network("school", <<2, 2, 7, 5>>)}

Site(id, file, at) == [id |-> id, file |-> file, at |-> at]
Sites == {Site(0, "workplaces", 6), Site(60, "workplaces", 6), Site(70, "schools", 7), Site(80, "daycares", 8)}

Source(cbsaOf, ties) ==
  [people |-> Adults(cbsaOf) \cup {[Person(6, 50, "none", 1) EXCEPT !.hh = 0]}, sites |-> Sites, ties |-> ties]

\* Weekdays of diaries, in the kinds of atus.py: an ordinary day; one with a gap, an
\* overlap and short rows; one on the way at both ends; a night at work and then out; a
\* day away; a day of short rows; a day of work.
DiaryRows == <<
  <<Row("personal_care", 4, 8), Row("travel", 8, 10), Row("work", 10, 17), Row("travel", 17, 18),
    Row("meal", 18, 20), Row("personal_care", 20, 4)>>,
  <<Row("personal_care", 4, 8), Row("travel", 8, 9), Row("work", 10, 17), Row("meal", 16, 18), Row("social", 20, 4)>>,
  <<Row("travel", 4, 6), Row("work", 6, 12), Row("shopping", 12, 20), Row("travel", 20, 4)>>,
  <<Row("work", 4, 14), Row("shopping", 14, 4)>>,
  <<Row("social", 4, 4)>>,
  <<Row("personal_care", 4, 5), Row("travel", 5, 6), Row("meal", 6, 7), Row("school", 7, 8), Row("work", 8, 11),
    Row("travel", 11, 12), Row("shopping", 12, 13), Row("personal_care", 13, 4)>>,
  <<Row("work", 4, 4)>> >>

Diarist(day, age, n) == [day |-> day, age |-> age, sex |-> 1, rows |-> DiaryRows[n]]
Donors(n, m) == <<Diarist("weekday", 30, n), Diarist("weekend", 30, m), Diarist("weekday", 70, m)>>

World(source, diaries, pois, commands, at) ==
  [source |-> source, cbsas |-> {1, 2}, diaries |-> diaries, pois |-> pois,
   commands |-> commands, disk |-> at]

Plain == Source(<<1, 1, 2, 1, 2>>, TieRows)

\* Sources that are not in order: a school that is also in the file of daycares, one that
\* is off the map, one where a child has daycare, a shop and a restaurant of one source id.
Disorders == {"twice", "off map", "two kinds", "two categories"}
Disordered(how) ==
  CASE how = "twice" -> [Plain EXCEPT !.sites = Sites \cup {Site(70, "daycares", 9)}]
    [] how = "off map" -> [Plain EXCEPT !.sites = (Sites \ {Site(70, "schools", 7)}) \cup {Site(70, "schools", OffMap)}]
    [] how = "two kinds" -> [Plain EXCEPT !.people = {IF p.id = 5 THEN [p EXCEPT !.site = 70] ELSE p : p \in Plain.people}]
    [] how = "two categories" -> Plain
Restaurant == [Poi(1, 1, 30) EXCEPT !.category = "meal", !.id = [kind \in {"meal", "other"} |-> IF kind = "meal" THEN 116 ELSE 115]]

\* Worlds by name: one build of pairs of diaries over places with much and little room,
\* one of people without ties, one of each of the sources that are not in order, one of
\* every way in which five people and their ties can be spread (where only the sample is
\* looked at), and longer histories of commands, from nothing and from sources that are
\* there.
DiaryWorlds == {<<"diary", n, m, base>> : n \in DOMAIN DiaryRows, m \in {2, 4, 5}, base \in {1, 30}}
SampleWorlds == {<<"sample", cbsaOf, ties>> : cbsaOf \in {f \in [1..5 -> {1, 2}] : f[1] = 1}, ties \in SUBSET TieRows}
Histories == {<<"history", at>> : at \in {None, Whole(1)}}
DisorderWorlds == {<<"disorder", how>> : how \in Disorders}
Alone == <<"alone">>

AllWorlds ==
  [w \in DiaryWorlds |-> World(Plain, <<Donors(w[2], w[3]), Donors(w[3], w[2])>>, <<Map(w[4]), Map(30)>>, 1, Whole(1))]
  @@ [w \in SampleWorlds |-> World(Source(w[2], w[3]), <<>>, <<>>, 0, Whole(1))]
  @@ [w \in DisorderWorlds |->
       World(Disordered(w[2]), <<Donors(1, 1), Donors(1, 2)>>,
             <<IF w[2] = "two categories" THEN Map(30) \cup {Restaurant} ELSE Map(30), Map(30)>>, 1, Whole(1))]
  @@ [w \in Histories |->
       World(Plain, <<Donors(1, 1), Donors(1, 2)>>, <<Map(30), Map(30)>>, IF w[2] = None THEN 4 ELSE 3, w[2])]
  @@ [w \in {Alone} |->
       World(Source(<<1, 1, 2, 1, 2>>, {}), <<Donors(1, 1), Donors(1, 2)>>, <<Map(30), Map(30)>>, 1, Whole(1))]

\* (TLC evaluates AllWorlds once.)
MCWorlds == AllWorlds
=============================================================================
