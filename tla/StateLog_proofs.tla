--------------------------- MODULE StateLog_proofs ---------------------------
(***************************************************************************)
(* Proofs about StateLog, for any number of ranks, people, states and      *)
(* ticks, any file size, and a run that stops anywhere.                    *)
(*                                                                         *)
(* BaseInv holds whatever people do: what a writer buffers is its own      *)
(* rank's, and rank 0's rows are in the stream or about to be.             *)
(*                                                                         *)
(* HistoryInv ties loggers and files to the true history: a logger's       *)
(* memory is what its rank last saw of each person, so that the rows of a  *)
(* rank and a tick are Changes(t, r), a function of the history alone, and *)
(* files and buffers together hold those of every tick the rank logged.    *)
(* That everybody is as in their latest row needs ArrivalsNoticed.         *)
(***************************************************************************)
EXTENDS StateLog, FiniteSetTheorems, TLAPS

TableRows == DeltaRows \cup AuditRows

TypeInv ==
  /\ TypeOK
  /\ buffer \in [Channels -> [Ranks -> Seq(SUBSET TableRows)]]
  /\ files \in [Channels -> SUBSET TableRows]
  /\ stream \in Seq(SUBSET DeltaRows)

\* What is in the buffers of a rank's writers is of their kind and of that rank.
OwnRows ==
  \A r \in Ranks :
    /\ UNION ToSet(buffer["delta"][r]) \subseteq {d \in DeltaRows : d.rank = r}
    /\ UNION ToSet(buffer["audit"][r]) \subseteq AuditRows

NowInv ==
  /\ tick > 0 => truth[tick].rank = rank /\ truth[tick].state = state
  /\ \A r \in Ranks : pc[r] \in {"logging", "auditing", "publishing"} => tick > 0

EndedInv ==
  \A r \in Ranks : pc[r] = "ended" => \A c \in Channels : buffer[c][r] = <<>>

\* Rank 0's rows that are not in the stream yet are the table it publishes next.
StreamInv ==
  \A d \in files["delta"] \cup UNION ToSet(buffer["delta"][Root]) :
    \/ d.rank # Root
    \/ d \in UNION ToSet(stream)
    \/ pc[Root] \in {"auditing", "publishing"} /\ d \in latest

BaseInv == TypeInv /\ OwnRows /\ NowInv /\ EndedInv /\ StreamInv
-----------------------------------------------------------------------------
(* The true history of a run. *)

\* For the logger of their rank p has changed at tick t.
Changed(t, p) == ~AsLastSeen(t, p)

At(t, r) == {p \in Persons : truth[t].rank[p] = r}

\* The rows a rank owes for a tick.
Row(t, p) == [tick |-> t, rank |-> truth[t].rank[p], agent |-> p, state |-> truth[t].state[p]]
Changes(t, r) == {Row(t, p) : p \in {q \in At(t, r) : Changed(t, q)}}
Audit(t, r) == [tick |-> t, rank |-> r, evaluated |-> Cardinality(At(t, r)),
                changed |-> Cardinality(Changes(t, r))]

\* The ticks a rank's logger has seen, those it has audited, and those audited on disk.
Seen(r) == IF pc[r] = "logging" THEN tick - 1 ELSE tick
Audited(r) == IF pc[r] \in {"logging", "auditing"} THEN tick - 1 ELSE tick
OnFile(r) == Audited(r) - Len(buffer["audit"][r])

\* A logger remembers of everybody what its rank last saw.
Remembered(r, p) ==
  \/ memory[r][p] = Unlogged /\ \A u \in 1..Seen(r) : truth[u].rank[p] # r
  \/ \E u \in 1..Seen(r) :
       /\ truth[u].rank[p] = r /\ memory[r][p] = truth[u].state[p]
       /\ \A v \in (u + 1)..Seen(r) : truth[v].rank[p] # r
MemoryInv == \A r \in Ranks, p \in Persons : Remembered(r, p)

\* Where arrivals are noticed, everybody is as at their latest change.
LatestIs(t, p) ==
  \E u \in 1..t :
    /\ Changed(u, p)
    /\ truth[u].rank[p] = truth[t].rank[p] /\ truth[u].state[p] = truth[t].state[p]
    /\ \A v \in (u + 1)..t : ~Changed(v, p)
LastChangeInv == \A p \in Persons : \A t \in 1..tick : ArrivalsNoticed(t) => LatestIs(t, p)

\* Files and buffers hold changes and nothing else, and all of those a rank has seen.
DeltaInv ==
  /\ \A d \in files["delta"] : d.tick \in 1..Seen(d.rank) /\ d \in Changes(d.tick, d.rank)
  /\ \A r \in Ranks :
       /\ \A d \in UNION ToSet(buffer["delta"][r]) :
            d.tick \in 1..Seen(r) /\ d \in Changes(d.tick, r)
       /\ \A t \in 1..Seen(r) :
            Changes(t, r) \subseteq files["delta"] \cup UNION ToSet(buffer["delta"][r])

\* Audits are on disk up to a tick, and buffered from there.
AuditInv ==
  /\ \A a \in files["audit"] : a.tick \in 1..OnFile(a.rank) /\ a = Audit(a.tick, a.rank)
  /\ \A r \in Ranks :
       /\ OnFile(r) \in Nat
       /\ \A t \in 1..OnFile(r) : Audit(t, r) \in files["audit"]
       /\ \A i \in 1..Len(buffer["audit"][r]) :
            buffer["audit"][r][i] = {Audit(OnFile(r) + i, r)}

CountInv ==
  \A r \in Ranks : pc[r] = "auditing" => changed[r] = Cardinality(Changes(tick, r))

HistoryInv == MemoryInv /\ LastChangeInv /\ DeltaInv /\ AuditInv /\ CountInv

IInv == BaseInv /\ HistoryInv
-----------------------------------------------------------------------------
(* Sequences of tables, and counting. *)

LEMMA OneMoreTable ==
  ASSUME NEW S, NEW tables \in Seq(S), NEW more \in Seq(S),
         Len(more) = Len(tables) + 1, \A i \in 1..Len(tables) : more[i] = tables[i]
  PROVE  UNION ToSet(more) = (UNION ToSet(tables)) \cup more[Len(more)]
<1>1. /\ DOMAIN tables = 1..Len(tables) /\ DOMAIN more = 1..(Len(tables) + 1)
      /\ Len(tables) \in Nat
  OBVIOUS
<1>2. ASSUME NEW x \in ToSet(more) PROVE x \in ToSet(tables) \/ x = more[Len(more)]
  BY <1>1 DEF ToSet
<1>3. ASSUME NEW x \in ToSet(tables) PROVE x \in ToSet(more)
  BY <1>1 DEF ToSet
<1>4. more[Len(more)] \in ToSet(more)
  BY <1>1 DEF ToSet
<1> QED
  BY <1>2, <1>3, <1>4

LEMMA NoTable == UNION ToSet(<<>>) = {}
BY DEF ToSet

\* A table written behind the buffered ones, or buffered behind them.
Flushes(c, r, table) ==
  /\ buffer'[c][r] = <<>>
  /\ files'[c] = (files[c] \cup (UNION ToSet(buffer[c][r]))) \cup table

Buffers(c, r, table) ==
  /\ Len(buffer'[c][r]) = Len(buffer[c][r]) + 1 /\ Len(buffer'[c][r]) < FlushTicks
  /\ \A i \in 1..Len(buffer[c][r]) : buffer'[c][r][i] = buffer[c][r][i]
  /\ buffer'[c][r][Len(buffer'[c][r])] = table
  /\ UNION ToSet(buffer'[c][r]) = (UNION ToSet(buffer[c][r])) \cup table
  /\ files'[c] = files[c]

\* What Write does to the writer's buffer and to the files of its channel.
LEMMA WriteFacts ==
  ASSUME TypeInv, NEW c \in Channels, NEW r \in Ranks, NEW table \in SUBSET TableRows,
         Write(c, r, table)
  PROVE  /\ buffer' \in [Channels -> [Ranks -> Seq(SUBSET TableRows)]]
         /\ files' \in [Channels -> SUBSET TableRows]
         /\ \A d \in Channels \ {c} : files'[d] = files[d]
         /\ \A d \in Channels, s \in Ranks : d # c \/ s # r => buffer'[d][s] = buffer[d][s]
         /\ Flushes(c, r, table) \/ Buffers(c, r, table)
<1> DEFINE tables == Append(buffer[c][r], table)
           full == Len(tables) >= FlushTicks
<1>1. /\ buffer \in [Channels -> [Ranks -> Seq(SUBSET TableRows)]]
      /\ files \in [Channels -> SUBSET TableRows]
      /\ buffer[c][r] \in Seq(SUBSET TableRows)
  BY DEF TypeInv
<1>2. /\ tables \in Seq(SUBSET TableRows) /\ Len(tables) = Len(buffer[c][r]) + 1
      /\ \A i \in 1..Len(buffer[c][r]) : tables[i] = buffer[c][r][i]
      /\ tables[Len(tables)] = table
  BY <1>1
<1>3. /\ buffer' = [buffer EXCEPT ![c][r] = IF full THEN <<>> ELSE tables]
      /\ files' = [files EXCEPT ![c] = IF full THEN @ \cup UNION ToSet(tables) ELSE @]
  BY DEF Write
<1> HIDE DEF tables
<1>4. UNION ToSet(tables) = (UNION ToSet(buffer[c][r])) \cup table
  <2>1. UNION ToSet(tables) = (UNION ToSet(buffer[c][r])) \cup tables[Len(tables)]
    <3> DEFINE S == SUBSET TableRows
    <3>1. buffer[c][r] \in Seq(S) /\ tables \in Seq(S)
      BY <1>1, <1>2
    <3> HIDE DEF S
    <3> QED
      BY <1>2, <3>1, OneMoreTable
  <2> QED
    BY <1>2, <2>1
<1>5. UNION ToSet(tables) \subseteq TableRows
  <2>1. \A i \in DOMAIN tables : tables[i] \in SUBSET TableRows
    BY <1>2
  <2>2. \A x \in ToSet(tables) : x \subseteq TableRows
    BY <2>1 DEF ToSet
  <2> QED
    BY <2>2
<1>6. buffer' \in [Channels -> [Ranks -> Seq(SUBSET TableRows)]]
  <2>1. (IF full THEN <<>> ELSE tables) \in Seq(SUBSET TableRows)
    BY <1>2
  <2> QED
    BY <1>1, <1>3, <2>1
<1>7. files' \in [Channels -> SUBSET TableRows]
  BY <1>1, <1>3, <1>5
<1>8. /\ \A d \in Channels \ {c} : files'[d] = files[d]
      /\ \A d \in Channels, s \in Ranks : d # c \/ s # r => buffer'[d][s] = buffer[d][s]
  BY <1>1, <1>3
<1>9. /\ buffer'[c][r] = IF full THEN <<>> ELSE tables
      /\ files'[c] = IF full THEN files[c] \cup UNION ToSet(tables) ELSE files[c]
  BY <1>1, <1>3
<1>10. CASE full
  <2>1. buffer'[c][r] = <<>>
    BY <1>9, <1>10
  <2>2. files'[c] = (files[c] \cup (UNION ToSet(buffer[c][r]))) \cup table
    BY <1>4, <1>9, <1>10
  <2> QED
    BY <1>6, <1>7, <1>8, <2>1, <2>2 DEF Flushes
<1>11. CASE ~full
  <2>1. Len(buffer[c][r]) + 1 < FlushTicks
    <3>1. Len(buffer[c][r]) \in Nat
      BY <1>1
    <3> QED
      BY <1>2, <1>11, <3>1, StateLogAssumption DEF StateLogAssumption
  <2>2. buffer'[c][r] = tables /\ files'[c] = files[c]
    BY <1>9, <1>11
  <2> QED
    BY <1>2, <1>4, <1>6, <1>7, <1>8, <2>1, <2>2 DEF Buffers
<1> QED
  BY <1>10, <1>11

LEMMA FlushFacts ==
  ASSUME TypeInv, NEW c \in Channels, NEW r \in Ranks, Flush(c, r)
  PROVE  /\ buffer' \in [Channels -> [Ranks -> Seq(SUBSET TableRows)]]
         /\ files' \in [Channels -> SUBSET TableRows]
         /\ \A d \in Channels \ {c} : files'[d] = files[d]
         /\ \A d \in Channels, s \in Ranks : d # c \/ s # r => buffer'[d][s] = buffer[d][s]
         /\ buffer'[c][r] = <<>>
         /\ files'[c] = files[c] \cup UNION ToSet(buffer[c][r])
<1>1. /\ buffer \in [Channels -> [Ranks -> Seq(SUBSET TableRows)]]
      /\ files \in [Channels -> SUBSET TableRows]
      /\ buffer[c][r] \in Seq(SUBSET TableRows)
  BY DEF TypeInv
<1>2. /\ buffer' = [buffer EXCEPT ![c][r] = <<>>]
      /\ files' = [files EXCEPT ![c] = @ \cup UNION ToSet(buffer[c][r])]
  BY DEF Flush
<1>3. \A x \in ToSet(buffer[c][r]) : x \subseteq TableRows
  BY <1>1 DEF ToSet
<1>4. UNION ToSet(buffer[c][r]) \subseteq TableRows
  BY <1>3
<1>5. buffer' \in [Channels -> [Ranks -> Seq(SUBSET TableRows)]]
  BY <1>1, <1>2
<1>6. files' \in [Channels -> SUBSET TableRows]
  BY <1>1, <1>2, <1>4
<1>7. /\ \A d \in Channels \ {c} : files'[d] = files[d]
      /\ \A d \in Channels, s \in Ranks : d # c \/ s # r => buffer'[d][s] = buffer[d][s]
      /\ buffer'[c][r] = <<>>
      /\ files'[c] = files[c] \cup UNION ToSet(buffer[c][r])
  BY <1>1, <1>2
<1> QED
  BY <1>5, <1>6, <1>7

LEMMA FiniteImage ==
  ASSUME NEW S, IsFiniteSet(S), NEW T, NEW f \in [S -> T], \A y \in T : \E x \in S : f[x] = y
  PROVE  IsFiniteSet(T)
<1>1. f \in Surjection(S, T)
  BY DEF Surjection, Range
<1> QED
  BY <1>1, FS_Surjection

LEMMA SameCount ==
  ASSUME NEW S, IsFiniteSet(S), NEW T, NEW f \in [S -> T], \A y \in T : \E x \in S : f[x] = y,
         \A x, y \in S : f[x] = f[y] => x = y
  PROVE  IsFiniteSet(T) /\ Cardinality(T) = Cardinality(S)
<1>1. f \in Bijection(S, T)
  BY DEF Bijection, Surjection, Injection, IsInjective, Range
<1>2. ExistsBijection(S, T)
  BY <1>1 DEF ExistsBijection
<1> QED
  BY <1>2, FS_Bijection

\* Rows of rank r about some people at tick t.
RowsOf(t, r, people, states) ==
  {[tick |-> t, rank |-> r, agent |-> p, state |-> states[p]] : p \in people}

LEMMA FiniteRows ==
  ASSUME NEW t, NEW r, NEW people \in SUBSET Persons, NEW states
  PROVE  /\ IsFiniteSet(RowsOf(t, r, people, states))
         /\ Cardinality(RowsOf(t, r, people, states)) \in Nat
<1> DEFINE row(p) == [tick |-> t, rank |-> r, agent |-> p, state |-> states[p]]
           f == [p \in people |-> row(p)]
           rows == RowsOf(t, r, people, states)
<1>1. IsFiniteSet(people)
  BY StateLogAssumption, FS_Subset DEF StateLogAssumption
<1>2. f \in [people -> rows] /\ \A y \in rows : \E x \in people : f[x] = y
  BY DEF RowsOf
<1> HIDE DEF f, rows
<1>3. IsFiniteSet(rows)
  BY <1>1, <1>2, FiniteImage
<1> QED
  BY <1>3, FS_CardinalityType DEF rows
-----------------------------------------------------------------------------
(* BaseInv. *)

LEMMA BaseInit == Init => BaseInv
<1> SUFFICES ASSUME Init PROVE BaseInv
  OBVIOUS
<1> USE DEF Init, tick
<1>1. /\ \A c \in Channels, r \in Ranks : buffer[c][r] = <<>>
      /\ \A c \in Channels : files[c] = {}
      /\ Root \in Ranks /\ FlushTicks > 0 /\ Ticks >= 0
  BY StateLogAssumption DEF StateLogAssumption
<1>2. TypeInv
  <2>1. TypeOK
    BY <1>1 DEF TypeOK, Phases, Channels
  <2>2. /\ buffer \in [Channels -> [Ranks -> Seq(SUBSET TableRows)]]
        /\ files \in [Channels -> SUBSET TableRows]
        /\ stream \in Seq(SUBSET DeltaRows)
    OBVIOUS
  <2> QED
    BY <2>1, <2>2 DEF TypeInv
<1>3. OwnRows /\ EndedInv /\ StreamInv
  BY <1>1, NoTable DEF OwnRows, EndedInv, StreamInv, Channels
<1>4. NowInv
  BY DEF NowInv
<1> QED
  BY <1>2, <1>3, <1>4 DEF BaseInv

\* The rows of LogDelta.
LogRows(r) == RowsOf(tick, r, {q \in Residents(r) : memory[r][q] # state[q]}, state)

LEMMA LogRowsFacts ==
  ASSUME BaseInv, NEW r \in Ranks, pc[r] = "logging"
  PROVE  /\ LogRows(r) \subseteq {d \in DeltaRows : d.rank = r}
         /\ LogRows(r) \in SUBSET TableRows
         /\ Cardinality(LogRows(r)) \in Nat
<1>1. tick \in 1..Ticks
  BY StateLogAssumption DEF BaseInv, TypeInv, TypeOK, NowInv, tick
<1>2. \A p \in Persons : state[p] \in States
  BY DEF BaseInv, TypeInv, TypeOK
<1>3. LogRows(r) \subseteq {d \in DeltaRows : d.rank = r}
  BY <1>1, <1>2 DEF LogRows, RowsOf, DeltaRows, Residents
<1>4. Cardinality(LogRows(r)) \in Nat
  <2> DEFINE people == {q \in Residents(r) : memory[r][q] # state[q]}
  <2>1. people \in SUBSET Persons
    BY DEF Residents
  <2> HIDE DEF people
  <2>2. Cardinality(RowsOf(tick, r, people, state)) \in Nat
    BY <2>1, FiniteRows
  <2> QED
    BY <2>2 DEF LogRows, people
<1> QED
  BY <1>3, <1>4 DEF TableRows

LEMMA BaseLogDelta ==
  ASSUME BaseInv, NEW r \in Ranks, LogDelta(r)
  PROVE  BaseInv'
<1> DEFINE rows == LogRows(r)
<1> USE DEF BaseInv
<1>1. /\ pc[r] = "logging" /\ pc' = [pc EXCEPT ![r] = "auditing"]
      /\ memory' = [memory EXCEPT ![r] = [p \in Persons |-> Remembers(r, p)]]
      /\ changed' = [changed EXCEPT ![r] = Cardinality(rows)]
      /\ IF rows = {} THEN UNCHANGED <<buffer, files>> ELSE Write("delta", r, rows)
      /\ latest' = IF r = Root /\ rows # {} THEN rows ELSE latest
      /\ UNCHANGED <<world, stream>>
  BY DEF LogDelta, LogRows, RowsOf, Goes
<1>2. /\ rows \subseteq {d \in DeltaRows : d.rank = r} /\ rows \in SUBSET TableRows
      /\ Cardinality(rows) \in Nat
  BY <1>1, LogRowsFacts
<1> HIDE DEF rows
<1>t. /\ pc \in [Ranks -> Phases] /\ memory \in [Ranks -> [Persons -> States \cup {Unlogged}]]
      /\ changed \in [Ranks -> Nat] /\ \A p \in Persons : state[p] \in States
      /\ "delta" \in Channels /\ "audit" \in Channels /\ "audit" # "delta"
      /\ latest \subseteq DeltaRows
  BY DEF TypeInv, TypeOK, Channels
<1>3. /\ pc' \in [Ranks -> Phases] /\ pc'[r] = "auditing"
      /\ \A s \in Ranks : s # r => pc'[s] = pc[s]
      /\ changed' \in [Ranks -> Nat] /\ latest' \subseteq DeltaRows
  BY <1>1, <1>2, <1>t DEF Phases
<1>4. memory' \in [Ranks -> [Persons -> States \cup {Unlogged}]]
  <2>1. [p \in Persons |-> Remembers(r, p)] \in [Persons -> States \cup {Unlogged}]
    BY <1>t DEF Remembers
  <2> QED
    BY <1>1, <1>t, <2>1
<1>5. \/ rows = {} /\ UNCHANGED <<buffer, files>>
      \/ rows # {} /\ Write("delta", r, rows)
  BY <1>1
<1>6. /\ buffer' \in [Channels -> [Ranks -> Seq(SUBSET TableRows)]]
      /\ files' \in [Channels -> SUBSET TableRows]
      /\ files'["audit"] = files["audit"]
      /\ \A c \in Channels, s \in Ranks : c # "delta" \/ s # r => buffer'[c][s] = buffer[c][s]
      /\ files'["delta"] \subseteq
           (files["delta"] \cup (UNION ToSet(buffer["delta"][r]))) \cup rows
      /\ UNION ToSet(buffer'["delta"][r]) \subseteq
           (UNION ToSet(buffer["delta"][r])) \cup rows
      /\ Len(buffer'["delta"][r]) < FlushTicks
  <2>1. CASE rows = {} /\ UNCHANGED <<buffer, files>>
    BY <2>1, <1>t DEF TypeInv, TypeOK
  <2>2. CASE Write("delta", r, rows)
    <3>1. FlushTicks > 0 /\ Len(<<>>) = 0
      BY StateLogAssumption DEF StateLogAssumption
    <3>2. /\ buffer' \in [Channels -> [Ranks -> Seq(SUBSET TableRows)]]
          /\ files' \in [Channels -> SUBSET TableRows]
          /\ \A d \in Channels \ {"delta"} : files'[d] = files[d]
          /\ \A c \in Channels, s \in Ranks :
               c # "delta" \/ s # r => buffer'[c][s] = buffer[c][s]
      BY <2>2, <1>2, <1>t, WriteFacts
    <3>3. Flushes("delta", r, rows) \/ Buffers("delta", r, rows)
      BY <2>2, <1>2, <1>t, WriteFacts
    <3>4. /\ files'["delta"] \subseteq
               (files["delta"] \cup (UNION ToSet(buffer["delta"][r]))) \cup rows
          /\ UNION ToSet(buffer'["delta"][r]) \subseteq
               (UNION ToSet(buffer["delta"][r])) \cup rows
          /\ Len(buffer'["delta"][r]) < FlushTicks
      BY <3>1, <3>3, NoTable DEF Flushes, Buffers
    <3> QED
      BY <1>t, <3>2, <3>4
  <2> QED
    BY <1>5, <2>1, <2>2
<1>7. OwnRows'
  <2>1. \A s \in Ranks : buffer'["audit"][s] = buffer["audit"][s]
    BY <1>6, <1>t
  <2>2. \A s \in Ranks : s # r => buffer'["delta"][s] = buffer["delta"][s]
    BY <1>6, <1>t
  <2>3. UNION ToSet(buffer'["delta"][r]) \subseteq {d \in DeltaRows : d.rank = r}
    BY <1>2, <1>6 DEF OwnRows
  <2> QED
    BY <2>1, <2>2, <2>3 DEF OwnRows
<1>8. TypeInv'
  <2>1. files'["delta"] \subseteq DeltaRows /\ files'["audit"] \subseteq AuditRows
    BY <1>2, <1>6 DEF OwnRows, TypeInv, TypeOK
  <2>2. \A s \in Ranks, c \in Channels : Len(buffer'[c][s]) < FlushTicks
    BY <1>6 DEF TypeInv, TypeOK
  <2>3. /\ rank' \in [Persons -> Ranks] /\ state' \in [Persons -> States]
        /\ truth' \in Seq([rank : [Persons -> Ranks], state : [Persons -> States]])
        /\ tick' <= Ticks /\ stream' \in Seq(SUBSET DeltaRows)
    BY <1>1 DEF TypeInv, TypeOK, world, tick
  <2> QED
    BY <1>3, <1>4, <1>6, <2>1, <2>2, <2>3 DEF TypeInv, TypeOK
<1>9. NowInv' /\ EndedInv'
  <2>1. NowInv'
    BY <1>1, <1>3 DEF NowInv, world, tick
  <2>2. EndedInv'
    BY <1>3, <1>6 DEF EndedInv
  <2> QED
    BY <2>1, <2>2
<1>10. StreamInv'
  <2>1. CASE r = Root
    <3>1. \A d \in files["delta"] \cup UNION ToSet(buffer["delta"][Root]) :
            d.rank # Root \/ d \in UNION ToSet(stream)
      BY <1>1, <2>1 DEF StreamInv
    <3>2. \A d \in rows : d \in latest'
      BY <1>1, <2>1
    <3> QED
      BY <1>1, <1>3, <1>6, <2>1, <3>1, <3>2 DEF StreamInv
  <2>2. CASE r # Root
    <3>1. \A d \in rows \cup UNION ToSet(buffer["delta"][r]) : d.rank # Root
      BY <1>2, <2>2 DEF OwnRows
    <3>2. pc'[Root] = pc[Root] /\ latest' = latest /\ buffer'["delta"][Root] = buffer["delta"][Root]
      BY <1>1, <1>3, <1>6, <1>t, <2>2, StateLogAssumption DEF StateLogAssumption
    <3> QED
      BY <1>1, <1>6, <3>1, <3>2 DEF StreamInv
  <2> QED
    BY <2>1, <2>2
<1> QED
  BY <1>7, <1>8, <1>9, <1>10
\* The row of LogAudit.
AuditRow(r) == [tick |-> tick, rank |-> r,
                evaluated |-> Cardinality(Residents(r)), changed |-> changed[r]]

LEMMA LogAuditFacts ==
  ASSUME BaseInv, NEW r \in Ranks, LogAudit(r)
  PROVE  /\ pc[r] = "auditing"
         /\ pc' = [pc EXCEPT ![r] = IF r = Root THEN "publishing" ELSE "stepped"]
         /\ UNCHANGED <<world, memory, changed, latest, stream>>
         /\ AuditRow(r) \in AuditRows
         /\ buffer' \in [Channels -> [Ranks -> Seq(SUBSET TableRows)]]
         /\ files' \in [Channels -> SUBSET TableRows]
         /\ files'["delta"] = files["delta"]
         /\ \A c \in Channels, s \in Ranks :
              c # "audit" \/ s # r => buffer'[c][s] = buffer[c][s]
         /\ Flushes("audit", r, {AuditRow(r)}) \/ Buffers("audit", r, {AuditRow(r)})
<1> USE DEF BaseInv
<1>1. /\ pc[r] = "auditing"
      /\ pc' = [pc EXCEPT ![r] = IF r = Root THEN "publishing" ELSE "stepped"]
      /\ Write("audit", r, {AuditRow(r)})
      /\ UNCHANGED <<world, memory, changed, latest, stream>>
  BY DEF LogAudit, AuditRow, Goes
<1>2. AuditRow(r) \in AuditRows
  <2>1. tick \in 1..Ticks /\ changed[r] \in Nat
    BY <1>1, StateLogAssumption DEF TypeInv, TypeOK, NowInv, tick, StateLogAssumption
  <2>2. Cardinality(Residents(r)) \in Nat
    <3>1. Residents(r) \in SUBSET Persons
      BY DEF Residents
    <3>2. IsFiniteSet(Residents(r))
      BY <3>1, StateLogAssumption, FS_Subset DEF StateLogAssumption
    <3> QED
      BY <3>2, FS_CardinalityType
  <2> QED
    BY <2>1, <2>2 DEF AuditRow, AuditRows
<1>3. {AuditRow(r)} \in SUBSET TableRows /\ "audit" \in Channels /\ "delta" \in Channels \ {"audit"}
  BY <1>2 DEF TableRows, Channels
<1>4. /\ buffer' \in [Channels -> [Ranks -> Seq(SUBSET TableRows)]]
      /\ files' \in [Channels -> SUBSET TableRows]
      /\ files'["delta"] = files["delta"]
      /\ \A c \in Channels, s \in Ranks : c # "audit" \/ s # r => buffer'[c][s] = buffer[c][s]
  BY <1>1, <1>3, WriteFacts
<1>5. Flushes("audit", r, {AuditRow(r)}) \/ Buffers("audit", r, {AuditRow(r)})
  BY <1>1, <1>3, WriteFacts
<1> QED
  BY <1>1, <1>2, <1>4, <1>5

LEMMA BaseLogAudit ==
  ASSUME BaseInv, NEW r \in Ranks, LogAudit(r)
  PROVE  BaseInv'
<1> USE DEF BaseInv
<1>1. /\ pc[r] = "auditing"
      /\ pc' = [pc EXCEPT ![r] = IF r = Root THEN "publishing" ELSE "stepped"]
      /\ UNCHANGED <<world, memory, changed, latest, stream>>
      /\ AuditRow(r) \in AuditRows
  BY LogAuditFacts
<1>2. /\ buffer' \in [Channels -> [Ranks -> Seq(SUBSET TableRows)]]
      /\ files' \in [Channels -> SUBSET TableRows]
      /\ files'["delta"] = files["delta"]
      /\ \A c \in Channels, s \in Ranks : c # "audit" \/ s # r => buffer'[c][s] = buffer[c][s]
  BY LogAuditFacts
<1>3. Flushes("audit", r, {AuditRow(r)}) \/ Buffers("audit", r, {AuditRow(r)})
  BY LogAuditFacts
<1>t. pc \in [Ranks -> Phases] /\ "audit" \in Channels /\ "delta" \in Channels /\ "audit" # "delta"
  BY DEF TypeInv, TypeOK, Channels
<1>4. /\ pc' \in [Ranks -> Phases] /\ pc'[r] \in {"publishing", "stepped"}
      /\ r = Root => pc'[r] = "publishing"
      /\ \A s \in Ranks : s # r => pc'[s] = pc[s]
  BY <1>1, <1>t DEF Phases
<1>5. /\ files'["audit"] \subseteq AuditRows
      /\ UNION ToSet(buffer'["audit"][r]) \subseteq AuditRows
      /\ Len(buffer'["audit"][r]) < FlushTicks
  <2>1. FlushTicks > 0 /\ Len(<<>>) = 0
    BY StateLogAssumption DEF StateLogAssumption
  <2>2. UNION ToSet(buffer["audit"][r]) \subseteq AuditRows /\ files["audit"] \subseteq AuditRows
    BY DEF OwnRows, TypeInv, TypeOK
  <2>3. CASE Flushes("audit", r, {AuditRow(r)})
    BY <1>1, <2>1, <2>2, <2>3, NoTable DEF Flushes
  <2>4. CASE Buffers("audit", r, {AuditRow(r)})
    BY <1>1, <2>2, <2>4 DEF Buffers
  <2> QED
    BY <1>3, <2>3, <2>4
<1>6. \A s \in Ranks : buffer'["delta"][s] = buffer["delta"][s]
  BY <1>2, <1>t
<1>7. OwnRows'
  <2>1. \A s \in Ranks : s # r => buffer'["audit"][s] = buffer["audit"][s]
    BY <1>2, <1>t
  <2> QED
    BY <1>5, <1>6, <2>1 DEF OwnRows
<1>8. TypeInv'
  <2>1. \A s \in Ranks, c \in Channels : Len(buffer'[c][s]) < FlushTicks
    BY <1>2, <1>5 DEF TypeInv, TypeOK
  <2>2. /\ rank' \in [Persons -> Ranks] /\ state' \in [Persons -> States]
        /\ truth' \in Seq([rank : [Persons -> Ranks], state : [Persons -> States]])
        /\ tick' <= Ticks /\ stream' \in Seq(SUBSET DeltaRows)
        /\ memory' \in [Ranks -> [Persons -> States \cup {Unlogged}]]
        /\ changed' \in [Ranks -> Nat] /\ latest' \subseteq DeltaRows
    BY <1>1 DEF TypeInv, TypeOK, world, tick
  <2>3. files'["delta"] \subseteq DeltaRows
    BY <1>2 DEF TypeInv, TypeOK
  <2> QED
    BY <1>2, <1>4, <1>5, <2>1, <2>2, <2>3 DEF TypeInv, TypeOK
<1>9. NowInv'
  BY <1>1, <1>4 DEF NowInv, world, tick
<1>10. EndedInv'
  BY <1>2, <1>4 DEF EndedInv
<1>11. StreamInv'
  <2>1. Root \in Ranks
    BY StateLogAssumption DEF StateLogAssumption
  <2>2. pc[Root] \in {"auditing", "publishing"} => pc'[Root] \in {"auditing", "publishing"}
    BY <1>4, <2>1
  <2> QED
    BY <1>1, <1>2, <1>6, <2>1, <2>2 DEF StreamInv
<1> QED
  BY <1>7, <1>8, <1>9, <1>10, <1>11

LEMMA BaseFlush ==
  ASSUME BaseInv, NEW r \in Ranks, NEW c \in Channels, Flush(c, r)
  PROVE  BaseInv'
<1> USE DEF BaseInv
<1>1. pc[r] = "ending" /\ UNCHANGED <<world, pc, memory, changed, latest, stream>>
  BY DEF Flush
<1>2. /\ buffer' \in [Channels -> [Ranks -> Seq(SUBSET TableRows)]]
      /\ files' \in [Channels -> SUBSET TableRows]
      /\ \A d \in Channels \ {c} : files'[d] = files[d]
      /\ \A d \in Channels, s \in Ranks : d # c \/ s # r => buffer'[d][s] = buffer[d][s]
      /\ buffer'[c][r] = <<>>
      /\ files'[c] = files[c] \cup UNION ToSet(buffer[c][r])
  BY FlushFacts
<1>t. /\ "audit" \in Channels /\ "delta" \in Channels
      /\ FlushTicks > 0 /\ Len(<<>>) = 0 /\ Root \in Ranks
  BY StateLogAssumption DEF Channels, StateLogAssumption
<1>3. \A d \in Channels, s \in Ranks : buffer'[d][s] = buffer[d][s] \/ buffer'[d][s] = <<>>
  BY <1>2
<1>4. OwnRows'
  BY <1>3, <1>t, NoTable DEF OwnRows
<1>5. /\ files'["delta"] \subseteq files["delta"] \cup UNION ToSet(buffer["delta"][r])
      /\ files'["audit"] \subseteq files["audit"] \cup UNION ToSet(buffer["audit"][r])
  <2>1. CASE c = "delta"
    BY <1>2, <1>t, <2>1
  <2>2. CASE c = "audit"
    BY <1>2, <1>t, <2>2
  <2> QED
    BY <2>1, <2>2 DEF Channels
<1>6. TypeInv'
  <2>1. \A s \in Ranks, d \in Channels : Len(buffer'[d][s]) < FlushTicks
    BY <1>3, <1>t DEF TypeInv, TypeOK
  <2>2. files'["delta"] \subseteq DeltaRows
    BY <1>5 DEF TypeInv, TypeOK, OwnRows
  <2>3. files'["audit"] \subseteq AuditRows
    BY <1>5 DEF TypeInv, TypeOK, OwnRows
  <2>4. /\ rank' \in [Persons -> Ranks] /\ state' \in [Persons -> States]
        /\ truth' \in Seq([rank : [Persons -> Ranks], state : [Persons -> States]])
        /\ tick' <= Ticks /\ stream' \in Seq(SUBSET DeltaRows)
        /\ memory' \in [Ranks -> [Persons -> States \cup {Unlogged}]]
        /\ changed' \in [Ranks -> Nat] /\ latest' \subseteq DeltaRows
        /\ pc' \in [Ranks -> Phases]
    BY <1>1 DEF TypeInv, TypeOK, world, tick
  <2> QED
    BY <1>2, <2>1, <2>2, <2>3, <2>4 DEF TypeInv, TypeOK
<1>7. NowInv'
  BY <1>1 DEF NowInv, world, tick
<1>8. EndedInv'
  BY <1>1, <1>3 DEF EndedInv
<1>9. StreamInv'
  <2>1. \A d \in UNION ToSet(buffer["delta"][r]) : d.rank = r
    BY DEF OwnRows
  <2>2. \A d \in files'["delta"] \cup UNION ToSet(buffer'["delta"][Root]) :
          d.rank # Root \/ d \in files["delta"] \cup UNION ToSet(buffer["delta"][Root])
    BY <1>3, <1>5, <1>t, <2>1, NoTable
  <2> QED
    BY <1>1, <2>2 DEF StreamInv
<1> QED
  BY <1>4, <1>6, <1>7, <1>8, <1>9

LEMMA BaseStep == BaseInv /\ [Next]_vars => BaseInv'
<1> SUFFICES ASSUME BaseInv, [Next]_vars PROVE BaseInv'
  OBVIOUS
<1> USE DEF BaseInv
<1>t. /\ pc \in [Ranks -> Phases] /\ Root \in Ranks
      /\ truth \in Seq([rank : [Persons -> Ranks], state : [Persons -> States]])
      /\ stream \in Seq(SUBSET DeltaRows) /\ latest \in SUBSET DeltaRows
  BY StateLogAssumption DEF TypeInv, TypeOK, StateLogAssumption
<1>1. CASE Step
  <2>1. /\ Len(truth) < Ticks /\ \A r \in Ranks : pc[r] = "stepped"
        /\ pc' = [r \in Ranks |-> "logging"]
        /\ rank' \in [Persons -> Ranks] /\ state' \in [Persons -> States]
        /\ truth' = Append(truth, [rank |-> rank', state |-> state'])
        /\ UNCHANGED <<memory, changed, buffer, files, latest, stream>>
    BY <1>1 DEF Step, AllGo, tick
  <2>2. /\ truth' \in Seq([rank : [Persons -> Ranks], state : [Persons -> States]])
        /\ Len(truth') = Len(truth) + 1 /\ Len(truth) \in Nat
        /\ truth'[Len(truth')] = [rank |-> rank', state |-> state']
    BY <1>t, <2>1
  <2>3. TypeInv'
    <3>1. pc' \in [Ranks -> Phases]
      BY <2>1 DEF TypeInv, TypeOK, Phases
    <3>2. Len(truth') <= Ticks
      BY <2>1, <2>2, StateLogAssumption DEF StateLogAssumption
    <3> QED
      BY <2>1, <2>2, <3>1, <3>2 DEF TypeInv, TypeOK, tick
  <2>4. NowInv'
    BY <2>1, <2>2 DEF NowInv, tick
  <2>5. OwnRows' /\ EndedInv' /\ StreamInv'
    BY <1>t, <2>1 DEF OwnRows, EndedInv, StreamInv
  <2> QED
    BY <2>3, <2>4, <2>5
<1>2. CASE Publish
  <2>1. /\ pc[Root] = "publishing" /\ pc' = [pc EXCEPT ![Root] = "stepped"]
        /\ stream' = IF latest = {} THEN stream ELSE Append(stream, latest)
        /\ UNCHANGED <<world, memory, changed, buffer, files, latest>>
    BY <1>2 DEF Publish, Goes
  <2>2. /\ pc' \in [Ranks -> Phases] /\ pc'[Root] = "stepped"
        /\ \A s \in Ranks : s # Root => pc'[s] = pc[s]
    BY <1>t, <2>1 DEF Phases
  <2>3. /\ stream' \in Seq(SUBSET DeltaRows)
        /\ \A d : d \in UNION ToSet(stream) \/ d \in latest => d \in UNION ToSet(stream')
    <3>1. CASE latest = {}
      BY <1>t, <2>1, <3>1
    <3>2. CASE latest # {}
      <4>1. /\ stream' \in Seq(SUBSET DeltaRows) /\ Len(stream') = Len(stream) + 1
            /\ \A i \in 1..Len(stream) : stream'[i] = stream[i]
            /\ stream'[Len(stream')] = latest
        BY <1>t, <2>1, <3>2
      <4>2. UNION ToSet(stream') = (UNION ToSet(stream)) \cup stream'[Len(stream')]
        BY <1>t, <4>1, OneMoreTable
      <4> QED
        BY <4>1, <4>2
    <3> QED
      BY <3>1, <3>2
  <2>4. TypeInv'
    BY <2>1, <2>2, <2>3 DEF TypeInv, TypeOK, world, tick
  <2>5. NowInv' /\ OwnRows' /\ EndedInv'
    BY <2>1, <2>2 DEF NowInv, OwnRows, EndedInv, world, tick
  <2>6. StreamInv'
    BY <2>1, <2>3 DEF StreamInv
  <2> QED
    BY <2>4, <2>5, <2>6
<1>3. CASE BeginEnd
  <2>1. /\ \A r \in Ranks : pc[r] = "stepped"
        /\ pc' = [r \in Ranks |-> "ending"]
        /\ UNCHANGED <<world, memory, changed, buffer, files, latest, stream>>
    BY <1>3 DEF BeginEnd, AllGo
  <2>2. TypeInv'
    BY <2>1 DEF TypeInv, TypeOK, Phases, world, tick
  <2>3. NowInv' /\ OwnRows' /\ EndedInv' /\ StreamInv'
    BY <1>t, <2>1 DEF NowInv, OwnRows, EndedInv, StreamInv, world, tick
  <2> QED
    BY <2>2, <2>3
<1>4. ASSUME NEW r \in Ranks, End(r) PROVE BaseInv'
  <2>1. /\ pc[r] = "ending" /\ pc' = [pc EXCEPT ![r] = "ended"]
        /\ \A c \in Channels : buffer[c][r] = <<>>
        /\ UNCHANGED <<world, memory, changed, buffer, files, latest, stream>>
    BY <1>4 DEF End, Goes
  <2>2. /\ pc' \in [Ranks -> Phases] /\ pc'[r] = "ended"
        /\ \A s \in Ranks : s # r => pc'[s] = pc[s]
    BY <1>t, <2>1 DEF Phases
  <2>3. TypeInv'
    BY <2>1, <2>2 DEF TypeInv, TypeOK, world, tick
  <2>4. NowInv' /\ OwnRows' /\ EndedInv'
    BY <2>1, <2>2 DEF NowInv, OwnRows, EndedInv, world, tick
  <2>5. StreamInv'
    BY <1>t, <2>1, <2>2 DEF StreamInv
  <2> QED
    BY <2>3, <2>4, <2>5
<1>5. CASE UNCHANGED vars
  <2>1. UNCHANGED <<world, pc, memory, changed, buffer, files, latest, stream>>
    BY <1>5 DEF vars
  <2>2. TypeInv' /\ NowInv'
    BY <2>1 DEF TypeInv, TypeOK, NowInv, world, tick
  <2>3. OwnRows' /\ EndedInv' /\ StreamInv'
    BY <2>1 DEF OwnRows, EndedInv, StreamInv
  <2> QED
    BY <2>2, <2>3
<1> QED
  BY <1>1, <1>2, <1>3, <1>4, <1>5, BaseLogDelta, BaseLogAudit, BaseFlush DEF Next, RankStep
-----------------------------------------------------------------------------
(* HistoryInv. *)

\* The past of the history does not change.
LEMMA SamePast ==
  ASSUME NEW n \in Nat, \A t \in 1..n : truth'[t] = truth[t], NEW t \in 1..n
  PROVE  /\ \A p : Changed(t, p)' <=> Changed(t, p)
         /\ \A r : Changes(t, r)' = Changes(t, r)
         /\ \A r : Audit(t, r)' = Audit(t, r)
<1>1. truth'[t] = truth[t] /\ \A u \in 1..(t - 1) : truth'[u] = truth[u]
  OBVIOUS
<1>2. \A p : Changed(t, p)' <=> Changed(t, p)
  <2>1. \A u \in 1..(t - 1) : \A v \in (u + 1)..(t - 1) : v \in 1..(t - 1)
    OBVIOUS
  <2> QED
    BY <1>1, <2>1 DEF Changed, AsLastSeen
<1>3. \A r : At(t, r)' = At(t, r)
  BY <1>1 DEF At
<1>4. \A r : Changes(t, r)' = Changes(t, r)
  BY <1>1, <1>2, <1>3 DEF Changes, Row
<1>5. \A r : Audit(t, r)' = Audit(t, r)
  BY <1>3, <1>4 DEF Audit
<1> QED
  BY <1>2, <1>4, <1>5

LEMMA SameTruth ==
  ASSUME truth' = truth
  PROVE  /\ \A t, p : Changed(t, p)' <=> Changed(t, p)
         /\ \A t, r : Changes(t, r)' = Changes(t, r)
         /\ \A t, r : Audit(t, r)' = Audit(t, r)
<1>1. \A t, p : Changed(t, p)' <=> Changed(t, p)
  BY DEF Changed, AsLastSeen
<1>2. \A t, r : At(t, r)' = At(t, r)
  BY DEF At
<1>3. \A t, r : Changes(t, r)' = Changes(t, r)
  BY <1>1, <1>2 DEF Changes, Row
<1>4. \A t, r : Audit(t, r)' = Audit(t, r)
  BY <1>2, <1>3 DEF Audit
<1> QED
  BY <1>1, <1>3, <1>4

LEMMA ChangesFacts ==
  ASSUME BaseInv, NEW t \in 1..tick, NEW r \in Ranks
  PROVE  /\ \A d \in Changes(t, r) : d = Row(t, d.agent) /\ d.agent \in At(t, r)
                                    /\ Changed(t, d.agent) /\ d.rank = r /\ d.tick = t
         /\ \A p \in At(t, r) : Changed(t, p) => Row(t, p) \in Changes(t, r) /\ Row(t, p).agent = p
         /\ IsFiniteSet(Changes(t, r)) /\ Cardinality(Changes(t, r)) \in Nat
<1>1. \A d \in Changes(t, r) : d = Row(t, d.agent) /\ d.agent \in At(t, r)
                              /\ Changed(t, d.agent) /\ d.rank = r /\ d.tick = t
  BY DEF Changes, Row, At
<1>2. \A p \in At(t, r) : Changed(t, p) => Row(t, p) \in Changes(t, r) /\ Row(t, p).agent = p
  BY DEF Changes, Row
<1>3. IsFiniteSet(Changes(t, r)) /\ Cardinality(Changes(t, r)) \in Nat
  <2> DEFINE people == {q \in At(t, r) : Changed(t, q)}
  <2>1. people \in SUBSET Persons
    BY DEF At
  <2>2. Changes(t, r) = RowsOf(t, r, people, truth[t].state)
    BY DEF Changes, Row, RowsOf, At
  <2> HIDE DEF people
  <2> QED
    BY <2>1, <2>2, FiniteRows
<1> QED
  BY <1>1, <1>2, <1>3

\* What a step leaves alone.
LEMMA KeepDelta ==
  ASSUME DeltaInv, truth' = truth, files["delta"] \subseteq DeltaRows,
         \A r \in Ranks : Seen(r)' = Seen(r) /\ buffer'["delta"][r] = buffer["delta"][r],
         files'["delta"] = files["delta"]
  PROVE  DeltaInv'
<1>1. \A t, r : Changes(t, r)' = Changes(t, r)
  BY SameTruth
<1>2. \A d \in files["delta"] : d.rank \in Ranks
  BY DEF DeltaRows
<1> QED
  BY <1>1, <1>2 DEF DeltaInv

LEMMA KeepAudit ==
  ASSUME AuditInv, truth' = truth, files["audit"] \subseteq AuditRows,
         \A r \in Ranks : Audited(r)' = Audited(r) /\ buffer'["audit"][r] = buffer["audit"][r],
         files'["audit"] = files["audit"]
  PROVE  AuditInv'
<1>1. \A t, r : Audit(t, r)' = Audit(t, r)
  BY SameTruth
<1>2. \A a \in files["audit"] : a.rank \in Ranks
  BY DEF AuditRows
<1>3. \A r \in Ranks : OnFile(r)' = OnFile(r)
  BY DEF OnFile
<1> QED
  BY <1>1, <1>2, <1>3 DEF AuditInv

LEMMA KeepWorld ==
  ASSUME LastChangeInv, UNCHANGED world
  PROVE  LastChangeInv'
<1>1. \A t, p : Changed(t, p)' <=> Changed(t, p)
  BY SameTruth DEF world
<1>2. \A t : ArrivalsNoticed(t)' <=> ArrivalsNoticed(t)
  BY DEF ArrivalsNoticed, AsLastSeen, world
<1>3. \A t, p : LatestIs(t, p)' <=> LatestIs(t, p)
  BY <1>1 DEF LatestIs, world
<1> QED
  BY <1>2, <1>3 DEF LastChangeInv, world, tick

LEMMA HistoryInit == Init => HistoryInv
<1> SUFFICES ASSUME Init PROVE HistoryInv
  OBVIOUS
<1>1. /\ tick = 0 /\ \A r \in Ranks : pc[r] = "stepped" /\ buffer["delta"][r] = <<>>
      /\ \A r \in Ranks : buffer["audit"][r] = <<>>
      /\ files["delta"] = {} /\ files["audit"] = {}
      /\ \A r \in Ranks, p \in Persons : memory[r][p] = Unlogged
  BY DEF Init, tick, Channels
<1>2. \A r \in Ranks : Seen(r) = 0 /\ Audited(r) = 0 /\ OnFile(r) = 0
  BY <1>1 DEF Seen, Audited, OnFile
<1>3. MemoryInv /\ LastChangeInv /\ CountInv
  BY <1>1, <1>2 DEF MemoryInv, Remembered, LastChangeInv, CountInv
<1>4. DeltaInv
  BY <1>1, <1>2, NoTable DEF DeltaInv
<1>5. AuditInv
  BY <1>1, <1>2 DEF AuditInv
<1> QED
  BY <1>3, <1>4, <1>5 DEF HistoryInv

LEMMA HistoryTick ==
  ASSUME BaseInv, HistoryInv, Step
  PROVE  HistoryInv'
<1> USE DEF HistoryInv
<1>1. /\ \A r \in Ranks : pc[r] = "stepped"
      /\ pc' = [r \in Ranks |-> "logging"]
      /\ rank' \in [Persons -> Ranks]
      /\ truth' = Append(truth, [rank |-> rank', state |-> state'])
      /\ UNCHANGED <<memory, changed, buffer, files, latest, stream>>
  BY DEF Step, AllGo
<1>2. /\ tick \in Nat /\ tick' = tick + 1
      /\ \A t \in 1..tick : truth'[t] = truth[t]
      /\ truth'[tick'] = [rank |-> rank', state |-> state']
      /\ tick > 0 => truth[tick].rank = rank /\ truth[tick].state = state
  BY <1>1 DEF BaseInv, TypeInv, TypeOK, NowInv, tick
<1>3. \A t \in 1..tick : /\ \A p : Changed(t, p)' <=> Changed(t, p)
                         /\ \A r : Changes(t, r)' = Changes(t, r)
                         /\ \A r : Audit(t, r)' = Audit(t, r)
  BY <1>2, SamePast
<1>4. \A r \in Ranks : /\ Seen(r) = tick /\ Seen(r)' = tick
                       /\ Audited(r) = tick /\ Audited(r)' = tick
                       /\ OnFile(r)' = OnFile(r)
  BY <1>1, <1>2 DEF Seen, Audited, OnFile
<1>t. /\ files["delta"] \subseteq DeltaRows /\ files["audit"] \subseteq AuditRows
      /\ \A r \in Ranks : buffer["audit"][r] \in Seq(SUBSET TableRows)
  BY DEF BaseInv, TypeInv, TypeOK, Channels
<1>6. MemoryInv'
  <2> SUFFICES ASSUME NEW r \in Ranks, NEW p \in Persons PROVE Remembered(r, p)'
    BY DEF MemoryInv
  <2>1. Remembered(r, p)
    BY DEF MemoryInv
  <2>2. Seen(r) = tick /\ Seen(r)' = tick /\ memory'[r][p] = memory[r][p]
    BY <1>1, <1>4
  <2>3. CASE memory[r][p] = Unlogged /\ \A u \in 1..tick : truth[u].rank[p] # r
    BY <1>2, <2>2, <2>3 DEF Remembered
  <2>4. ASSUME NEW u \in 1..tick, truth[u].rank[p] = r, memory[r][p] = truth[u].state[p],
               \A v \in (u + 1)..tick : truth[v].rank[p] # r
        PROVE  Remembered(r, p)'
    <3>1. truth'[u] = truth[u] /\ \A v \in (u + 1)..tick : truth'[v] = truth[v]
      BY <1>2
    <3> QED
      BY <2>2, <2>4, <3>1 DEF Remembered
  <2> QED
    BY <2>1, <2>2, <2>3, <2>4 DEF Remembered
<1>7. LastChangeInv'
  <2> SUFFICES ASSUME NEW p \in Persons, NEW t \in 1..tick', ArrivalsNoticed(t)'
               PROVE  LatestIs(t, p)'
    BY DEF LastChangeInv
  <2>1. ASSUME NEW n \in 1..tick, n <= t PROVE ArrivalsNoticed(n)
    <3>1. \A u \in 2..n : u \in 2..t /\ u \in 1..tick /\ u - 1 \in 1..tick
      BY <1>2, <2>1
    <3> QED
      BY <1>2, <1>3, <3>1 DEF ArrivalsNoticed, Changed
  <2>2. CASE t \in 1..tick
    <3>1. PICK u \in 1..t :
            /\ Changed(u, p)
            /\ truth[u].rank[p] = truth[t].rank[p] /\ truth[u].state[p] = truth[t].state[p]
            /\ \A v \in (u + 1)..t : ~Changed(v, p)
      BY <2>1, <2>2 DEF LastChangeInv, LatestIs
    <3>2. u \in 1..tick /\ \A v \in (u + 1)..t : v \in 1..tick
      BY <1>2, <2>2
    <3> QED
      BY <1>2, <1>3, <2>2, <3>1, <3>2 DEF LatestIs
  <2>3. CASE t = tick + 1 /\ Changed(t, p)'
    BY <1>2, <2>3 DEF LatestIs
  <2>4. CASE t = tick + 1 /\ ~Changed(t, p)'
    <3>1. PICK w \in 1..tick :
            /\ truth'[w].rank[p] = truth'[t].rank[p] /\ truth'[w].state[p] = truth'[t].state[p]
            /\ \A v \in (w + 1)..tick : truth'[v].rank[p] # truth'[t].rank[p]
      BY <1>2, <2>4 DEF Changed, AsLastSeen
    <3>2. tick \in 1..tick /\ t \in 2..t /\ t - 1 = tick
      BY <1>2, <2>4
    <3>3. truth'[tick].rank[p] = truth'[t].rank[p]
      BY <2>4, <3>2 DEF ArrivalsNoticed, Changed
    <3>4. w = tick
      BY <1>2, <3>1, <3>2, <3>3
    <3>5. truth'[t].rank[p] = truth[tick].rank[p] /\ truth'[t].state[p] = truth[tick].state[p]
      BY <1>2, <3>1, <3>2, <3>4
    <3>6. PICK u \in 1..tick :
            /\ Changed(u, p)
            /\ truth[u].rank[p] = truth[tick].rank[p] /\ truth[u].state[p] = truth[tick].state[p]
            /\ \A v \in (u + 1)..tick : ~Changed(v, p)
      BY <1>2, <2>1, <2>4, <3>2 DEF LastChangeInv, LatestIs
    <3>7. u \in 1..t /\ \A v \in (u + 1)..t : v = t \/ (v \in (u + 1)..tick /\ v \in 1..tick)
      BY <1>2, <2>4
    <3>8. \A v \in (u + 1)..t : ~Changed(v, p)'
      BY <1>3, <2>4, <3>6, <3>7
    <3> QED
      BY <1>2, <1>3, <3>5, <3>6, <3>7, <3>8 DEF LatestIs
  <2> QED
    BY <1>2, <2>2, <2>3, <2>4
<1>8. DeltaInv'
  <2>1. \A d \in files["delta"] : d.rank \in Ranks
    BY <1>t DEF DeltaRows
  <2> QED
    BY <1>1, <1>3, <1>4, <2>1 DEF DeltaInv
<1>9. AuditInv'
  <2>1. \A a \in files["audit"] : a.rank \in Ranks
    BY <1>t DEF AuditRows
  <2>2. \A r \in Ranks : /\ OnFile(r) \in Nat /\ \A t \in 1..OnFile(r) : t \in 1..tick
                         /\ \A i \in 1..Len(buffer["audit"][r]) : OnFile(r) + i \in 1..tick
    <3> SUFFICES ASSUME NEW r \in Ranks
                 PROVE  /\ OnFile(r) \in Nat /\ \A t \in 1..OnFile(r) : t \in 1..tick
                        /\ \A i \in 1..Len(buffer["audit"][r]) : OnFile(r) + i \in 1..tick
      OBVIOUS
    <3>1. Len(buffer["audit"][r]) \in Nat
      BY <1>t
    <3>2. OnFile(r) \in Nat
      BY DEF AuditInv
    <3>3. OnFile(r) = tick - Len(buffer["audit"][r])
      BY <1>4 DEF OnFile
    <3>4. tick \in Nat
      BY <1>2
    <3> HIDE DEF OnFile, tick
    <3> QED
      BY <3>1, <3>2, <3>3, <3>4
  <2>3. \A t \in 1..tick : \A r : Audit(t, r)' = Audit(t, r)
    BY <1>3
  <2> QED
    BY <1>1, <1>4, <2>1, <2>2, <2>3 DEF AuditInv
<1>10. CountInv'
  BY <1>1 DEF CountInv
<1> QED
  BY <1>6, <1>7, <1>8, <1>9, <1>10

\* A logger's memory tells exactly the changes of the true history.
LEMMA LogRowsAreChanges ==
  ASSUME BaseInv, MemoryInv, NEW r \in Ranks, pc[r] = "logging"
  PROVE  LogRows(r) = Changes(tick, r)
<1>1. /\ tick \in Nat /\ tick > 0 /\ Seen(r) = tick - 1
      /\ truth[tick].rank = rank /\ truth[tick].state = state
  BY DEF BaseInv, TypeInv, TypeOK, NowInv, Seen, tick
<1>2. \A p \in Persons : state[p] # Unlogged
  BY StateLogAssumption DEF StateLogAssumption, BaseInv, TypeInv, TypeOK
<1>3. Residents(r) = At(tick, r)
  BY <1>1 DEF Residents, At
<1>4. ASSUME NEW p \in At(tick, r)
      PROVE  memory[r][p] # state[p] <=> Changed(tick, p)
  <2>1. p \in Persons /\ rank[p] = r
    BY <1>1, <1>4 DEF At
  <2>2. CASE memory[r][p] = Unlogged /\ \A u \in 1..(tick - 1) : truth[u].rank[p] # r
    BY <1>1, <1>2, <2>1, <2>2 DEF Changed, AsLastSeen
  <2>3. ASSUME NEW u \in 1..(tick - 1),
               truth[u].rank[p] = r, memory[r][p] = truth[u].state[p],
               \A v \in (u + 1)..(tick - 1) : truth[v].rank[p] # r
        PROVE  memory[r][p] # state[p] <=> Changed(tick, p)
    <3>1. ASSUME NEW w \in 1..(tick - 1), truth[w].rank[p] = r,
                 \A v \in (w + 1)..(tick - 1) : truth[v].rank[p] # r
          PROVE  w = u
      BY <1>1, <2>3, <3>1
    <3>2. truth[tick].rank[p] = r /\ truth[tick].state[p] = state[p]
      BY <1>1, <2>1
    <3> QED
      BY <2>3, <3>1, <3>2 DEF Changed, AsLastSeen
  <2> QED
    BY <1>1, <2>1, <2>2, <2>3 DEF MemoryInv, Remembered
<1>5. {q \in Residents(r) : memory[r][q] # state[q]} = {q \in At(tick, r) : Changed(tick, q)}
  BY <1>3, <1>4
<1>6. Changes(tick, r) = RowsOf(tick, r, {q \in At(tick, r) : Changed(tick, q)}, state)
  BY <1>1 DEF Changes, Row, RowsOf, At
<1> QED
  BY <1>5, <1>6 DEF LogRows

LEMMA HistoryLogDelta ==
  ASSUME BaseInv, HistoryInv, NEW r \in Ranks, LogDelta(r)
  PROVE  HistoryInv'
<1> DEFINE rows == LogRows(r)
<1> USE DEF HistoryInv
<1>1. /\ pc[r] = "logging" /\ pc' = [pc EXCEPT ![r] = "auditing"]
      /\ memory' = [memory EXCEPT ![r] = [p \in Persons |-> Remembers(r, p)]]
      /\ changed' = [changed EXCEPT ![r] = Cardinality(rows)]
      /\ IF rows = {} THEN UNCHANGED <<buffer, files>> ELSE Write("delta", r, rows)
      /\ UNCHANGED <<world, stream>>
  BY DEF LogDelta, LogRows, RowsOf, Goes
<1>2. rows = Changes(tick, r) /\ rows \in SUBSET TableRows
  BY <1>1, LogRowsAreChanges, LogRowsFacts
<1> HIDE DEF rows
<1>t. /\ pc \in [Ranks -> Phases] /\ memory \in [Ranks -> [Persons -> States \cup {Unlogged}]]
      /\ changed \in [Ranks -> Nat] /\ tick \in Nat /\ tick > 0
      /\ "delta" \in Channels /\ "audit" \in Channels \ {"delta"}
      /\ truth[tick].rank = rank /\ truth[tick].state = state
      /\ files["delta"] \subseteq DeltaRows /\ files["audit"] \subseteq AuditRows
  BY <1>1 DEF BaseInv, TypeInv, TypeOK, NowInv, Channels, tick
<1>3. /\ pc'[r] = "auditing" /\ changed'[r] = Cardinality(rows)
      /\ \A s \in Ranks : s # r => pc'[s] = pc[s] /\ changed'[s] = changed[s]
                                  /\ memory'[s] = memory[s]
      /\ memory'[r] = [p \in Persons |-> Remembers(r, p)]
      /\ truth' = truth /\ tick' = tick /\ rank' = rank
  BY <1>1, <1>t DEF world, tick
<1>4. /\ Seen(r) = tick - 1 /\ Seen(r)' = tick
      /\ \A s \in Ranks : s # r => Seen(s)' = Seen(s)
      /\ \A s \in Ranks : Audited(s)' = Audited(s)
  BY <1>1, <1>3 DEF Seen, Audited
<1>5. \/ rows = {} /\ UNCHANGED <<buffer, files>>
      \/ rows # {} /\ Write("delta", r, rows)
  BY <1>1
<1>6. /\ files'["audit"] = files["audit"]
      /\ \A s \in Ranks : buffer'["audit"][s] = buffer["audit"][s]
      /\ \A s \in Ranks : s # r => buffer'["delta"][s] = buffer["delta"][s]
      /\ files["delta"] \subseteq files'["delta"]
      /\ files'["delta"] \subseteq
           (files["delta"] \cup (UNION ToSet(buffer["delta"][r]))) \cup rows
      /\ UNION ToSet(buffer'["delta"][r]) \subseteq
           (UNION ToSet(buffer["delta"][r])) \cup rows
      /\ (UNION ToSet(buffer["delta"][r])) \cup rows \subseteq
           files'["delta"] \cup UNION ToSet(buffer'["delta"][r])
  <2>1. CASE rows = {} /\ UNCHANGED <<buffer, files>>
    BY <2>1
  <2>2. CASE Write("delta", r, rows)
    <3>1. /\ \A d \in Channels \ {"delta"} : files'[d] = files[d]
          /\ \A c \in Channels, s \in Ranks :
               c # "delta" \/ s # r => buffer'[c][s] = buffer[c][s]
      BY <1>2, <1>t, <2>2, WriteFacts DEF BaseInv
    <3>2. Flushes("delta", r, rows) \/ Buffers("delta", r, rows)
      BY <1>2, <1>t, <2>2, WriteFacts DEF BaseInv
    <3>3. /\ files'["audit"] = files["audit"]
          /\ \A s \in Ranks : buffer'["audit"][s] = buffer["audit"][s]
          /\ \A s \in Ranks : s # r => buffer'["delta"][s] = buffer["delta"][s]
      BY <1>t, <3>1
    <3>4. CASE Flushes("delta", r, rows)
      BY <3>3, <3>4, NoTable DEF Flushes
    <3>5. CASE Buffers("delta", r, rows)
      BY <3>3, <3>5 DEF Buffers
    <3> QED
      BY <3>2, <3>4, <3>5
  <2> QED
    BY <1>5, <2>1, <2>2
<1>7. MemoryInv'
  <2> SUFFICES ASSUME NEW s \in Ranks, NEW p \in Persons PROVE Remembered(s, p)'
    BY DEF MemoryInv
  <2>1. Remembered(s, p)
    BY DEF MemoryInv
  <2>2. CASE s # r
    BY <1>3, <1>4, <2>1, <2>2 DEF Remembered
  <2>3. CASE s = r /\ rank[p] = r
    <3>1. memory'[r][p] = state[p] /\ tick \in 1..tick /\ (tick + 1)..tick = {}
      BY <1>3, <1>t, <2>3 DEF Remembers
    <3> QED
      BY <1>3, <1>4, <1>t, <2>3, <3>1 DEF Remembered
  <2>4. CASE s = r /\ rank[p] # r
    <3>1. memory'[r][p] = memory[r][p] /\ truth[tick].rank[p] # r
      BY <1>3, <1>t, <2>4 DEF Remembers
    <3>2. \A u \in 1..tick : u \in 1..(tick - 1) \/ u = tick
      BY <1>t
    <3>3. \A u \in 1..(tick - 1) : /\ u \in 1..tick
                                  /\ \A v \in (u + 1)..tick : v \in (u + 1)..(tick - 1) \/ v = tick
      BY <1>t
    <3> QED
      BY <1>3, <1>4, <2>1, <2>4, <3>1, <3>2, <3>3 DEF Remembered
  <2> QED
    BY <2>2, <2>3, <2>4
<1>8. DeltaInv'
  <2>1. \A t, s : Changes(t, s)' = Changes(t, s)
    BY <1>3, SameTruth
  <2>2. \A d \in rows : d.rank = r /\ d.tick = tick /\ d \in Changes(tick, r)
    BY <1>2, <1>t, ChangesFacts
  <2>3. \A s \in Ranks : \A t : t \in 1..Seen(s) => t \in 1..Seen(s)'
    BY <1>4, <1>t
  <2>4. ASSUME NEW d \in files'["delta"]
        PROVE  d.tick \in 1..Seen(d.rank)' /\ d \in Changes(d.tick, d.rank)
    <3>1. CASE d \in files["delta"]
      <4>1. d.rank \in Ranks
        BY <1>t, <3>1 DEF DeltaRows
      <4> QED
        BY <2>3, <3>1, <4>1 DEF DeltaInv
    <3>2. CASE d \in UNION ToSet(buffer["delta"][r])
      <4>1. d.rank = r
        BY <3>2 DEF BaseInv, OwnRows
      <4> QED
        BY <2>3, <3>2, <4>1 DEF DeltaInv
    <3>3. CASE d \in rows
      BY <1>4, <1>t, <2>2, <3>3
    <3> QED
      BY <1>6, <3>1, <3>2, <3>3
  <2>5. ASSUME NEW s \in Ranks, NEW d \in UNION ToSet(buffer'["delta"][s])
        PROVE  d.tick \in 1..Seen(s)' /\ d \in Changes(d.tick, s)
    <3>1. CASE d \in UNION ToSet(buffer["delta"][s])
      BY <2>3, <3>1 DEF DeltaInv
    <3>2. CASE s = r /\ d \in rows
      BY <1>4, <1>t, <2>2, <3>2
    <3> QED
      BY <1>6, <2>5, <3>1, <3>2
  <2>6. ASSUME NEW s \in Ranks, NEW t \in 1..Seen(s)'
        PROVE  Changes(t, s) \subseteq files'["delta"] \cup UNION ToSet(buffer'["delta"][s])
    <3>1. CASE t \in 1..Seen(s)
      <4>1. Changes(t, s) \subseteq files["delta"] \cup UNION ToSet(buffer["delta"][s])
        BY <3>1 DEF DeltaInv
      <4> QED
        BY <1>6, <4>1
    <3>2. CASE s = r /\ t = tick
      BY <1>2, <1>6, <3>2
    <3>3. CASE s = r
      <4>1. t \in 1..tick /\ Seen(s) = tick - 1
        BY <1>4, <2>6, <3>3
      <4> QED
        BY <1>t, <3>1, <3>2, <3>3, <4>1
    <3>4. CASE s # r
      <4>1. t \in 1..Seen(s)
        BY <1>4, <2>6, <3>4
      <4> QED
        BY <3>1, <4>1
    <3> QED
      BY <3>3, <3>4
  <2> QED
    BY <2>1, <2>4, <2>5, <2>6 DEF DeltaInv
<1>9. AuditInv'
  BY <1>3, <1>4, <1>6, <1>t, KeepAudit
<1>10. CountInv'
  <2>1. \A t, s : Changes(t, s)' = Changes(t, s)
    BY <1>3, SameTruth
  <2> QED
    BY <1>2, <1>3, <2>1 DEF CountInv
<1>11. LastChangeInv'
  BY <1>1, KeepWorld
<1> QED
  BY <1>7, <1>8, <1>9, <1>10, <1>11
LEMMA BufferedAudits ==
  ASSUME BaseInv, AuditInv, NEW r \in Ranks
  PROVE  /\ Len(buffer["audit"][r]) \in Nat /\ OnFile(r) \in Nat
         /\ \A a : a \in UNION ToSet(buffer["audit"][r]) <=>
                   \E i \in 1..Len(buffer["audit"][r]) : a = Audit(OnFile(r) + i, r)
<1>1. buffer["audit"][r] \in Seq(SUBSET TableRows)
  BY DEF BaseInv, TypeInv, Channels
<1>2. Len(buffer["audit"][r]) \in Nat /\ DOMAIN buffer["audit"][r] = 1..Len(buffer["audit"][r])
  BY <1>1
<1>3. /\ OnFile(r) \in Nat
      /\ \A i \in 1..Len(buffer["audit"][r]) : buffer["audit"][r][i] = {Audit(OnFile(r) + i, r)}
  BY DEF AuditInv
<1>4. ASSUME NEW a \in UNION ToSet(buffer["audit"][r])
      PROVE  \E i \in 1..Len(buffer["audit"][r]) : a = Audit(OnFile(r) + i, r)
  <2>1. PICK audits \in ToSet(buffer["audit"][r]) : a \in audits
    OBVIOUS
  <2>2. PICK i \in 1..Len(buffer["audit"][r]) : audits = buffer["audit"][r][i]
    BY <1>2 DEF ToSet
  <2> QED
    BY <1>3, <2>1, <2>2
<1>5. ASSUME NEW i \in 1..Len(buffer["audit"][r])
      PROVE  Audit(OnFile(r) + i, r) \in UNION ToSet(buffer["audit"][r])
  <2>1. buffer["audit"][r][i] \in ToSet(buffer["audit"][r])
    BY <1>2 DEF ToSet
  <2> QED
    BY <1>3, <2>1
<1> QED
  BY <1>2, <1>3, <1>4, <1>5

LEMMA HistoryLogAudit ==
  ASSUME BaseInv, HistoryInv, NEW r \in Ranks, LogAudit(r)
  PROVE  HistoryInv'
<1> DEFINE n == Len(buffer["audit"][r])
           row == AuditRow(r)
<1> USE DEF HistoryInv
<1>1. /\ pc[r] = "auditing"
      /\ pc' = [pc EXCEPT ![r] = IF r = Root THEN "publishing" ELSE "stepped"]
      /\ UNCHANGED <<world, memory, changed, latest, stream>>
      /\ files'["delta"] = files["delta"]
      /\ \A c \in Channels, s \in Ranks : c # "audit" \/ s # r => buffer'[c][s] = buffer[c][s]
  BY LogAuditFacts
<1>2. Flushes("audit", r, {row}) \/ Buffers("audit", r, {row})
  BY LogAuditFacts
<1>t. /\ pc \in [Ranks -> Phases] /\ tick \in Nat /\ tick > 0
      /\ "delta" \in Channels \ {"audit"} /\ "audit" \in Channels
      /\ truth[tick].rank = rank
      /\ files["delta"] \subseteq DeltaRows /\ files["audit"] \subseteq AuditRows
  BY <1>1 DEF BaseInv, TypeInv, TypeOK, NowInv, Channels, tick
<1>3. /\ pc'[r] \in {"publishing", "stepped"}
      /\ \A s \in Ranks : s # r => pc'[s] = pc[s]
      /\ truth' = truth /\ tick' = tick
      /\ \A s \in Ranks : buffer'["delta"][s] = buffer["delta"][s]
      /\ \A s \in Ranks : s # r => buffer'["audit"][s] = buffer["audit"][s]
  BY <1>1, <1>t DEF world, tick
<1>4. /\ \A s \in Ranks : Seen(s)' = Seen(s)
      /\ \A s \in Ranks : s # r => Audited(s)' = Audited(s) /\ OnFile(s)' = OnFile(s)
      /\ Audited(r) = tick - 1 /\ Audited(r)' = tick
  BY <1>1, <1>3 DEF Seen, Audited, OnFile
<1>5. row = Audit(tick, r)
  <2>1. Residents(r) = At(tick, r)
    BY <1>t DEF Residents, At
  <2>2. changed[r] = Cardinality(Changes(tick, r))
    BY <1>1 DEF CountInv
  <2> QED
    BY <2>1, <2>2 DEF AuditRow, Audit
<1> HIDE DEF row
<1>6. /\ n \in Nat /\ OnFile(r) \in Nat /\ OnFile(r) = tick - 1 - n
      /\ \A a : a \in UNION ToSet(buffer["audit"][r]) <=>
                \E i \in 1..n : a = Audit(OnFile(r) + i, r)
      /\ \A i \in 1..n : buffer["audit"][r][i] = {Audit(OnFile(r) + i, r)}
      /\ \A t \in 1..OnFile(r) : Audit(t, r) \in files["audit"]
  BY <1>4, BufferedAudits DEF OnFile, AuditInv
<1>7. \A t, s : Audit(t, s)' = Audit(t, s) /\ Audit(t, s).tick = t /\ Audit(t, s).rank = s
  <2>1. \A t, s : Audit(t, s)' = Audit(t, s)
    BY <1>3, SameTruth
  <2> QED
    BY <2>1 DEF Audit
<1>8. AuditInv'
  <2>1. \A a \in files["audit"] : a.rank \in Ranks
    BY <1>t DEF AuditRows
  <2>2. /\ OnFile(r)' \in Nat /\ OnFile(r) <= OnFile(r)'
        /\ files["audit"] \subseteq files'["audit"]
        /\ \A a \in files'["audit"] :
             a \in files["audit"] \/ \E t \in 1..OnFile(r)' : a = Audit(t, r)
        /\ \A t \in 1..OnFile(r)' : Audit(t, r) \in files'["audit"]
        /\ \A i \in 1..Len(buffer'["audit"][r]) :
             buffer'["audit"][r][i] = {Audit(OnFile(r)' + i, r)}
    <3>1. CASE Flushes("audit", r, {row})
      <4>1. /\ buffer'["audit"][r] = <<>>
            /\ files'["audit"] = (files["audit"] \cup (UNION ToSet(buffer["audit"][r]))) \cup {row}
        BY <3>1 DEF Flushes
      <4>2. OnFile(r)' = tick /\ Len(buffer'["audit"][r]) = 0
        BY <1>4, <1>t, <4>1 DEF OnFile
      <4>3. ASSUME NEW a \in files'["audit"]
            PROVE  a \in files["audit"] \/ \E t \in 1..tick : a = Audit(t, r)
        <5>1. CASE a \in UNION ToSet(buffer["audit"][r])
          <6>1. PICK i \in 1..n : a = Audit(OnFile(r) + i, r)
            BY <1>6, <5>1
          <6>2. OnFile(r) + i \in 1..tick
            BY <1>6, <1>t
          <6> QED
            BY <6>1, <6>2
        <5>2. CASE a = row
          BY <1>5, <1>t, <5>2
        <5> QED
          BY <4>1, <5>1, <5>2
      <4>4. ASSUME NEW t \in 1..tick
            PROVE  Audit(t, r) \in files'["audit"]
        <5>1. CASE t \in 1..OnFile(r)
          BY <1>6, <4>1, <5>1
        <5>2. CASE t - OnFile(r) \in 1..n
          <6>1. t = OnFile(r) + (t - OnFile(r))
            BY <1>6
          <6>2. Audit(t, r) \in UNION ToSet(buffer["audit"][r])
            BY <1>6, <5>2, <6>1
          <6> QED
            BY <4>1, <6>2
        <5>3. CASE t = tick
          BY <1>5, <4>1, <5>3
        <5> QED
          BY <1>6, <1>t, <5>1, <5>2, <5>3
      <4> QED
        BY <1>6, <1>t, <4>1, <4>2, <4>3, <4>4
    <3>2. CASE Buffers("audit", r, {row})
      <4>1. /\ Len(buffer'["audit"][r]) = n + 1
            /\ \A i \in 1..n : buffer'["audit"][r][i] = buffer["audit"][r][i]
            /\ buffer'["audit"][r][n + 1] = {row}
            /\ files'["audit"] = files["audit"]
        BY <3>2 DEF Buffers
      <4>2. OnFile(r)' = OnFile(r) /\ OnFile(r) + (n + 1) = tick
        <5>1. OnFile(r)' = tick - (n + 1)
          BY <1>4, <4>1 DEF OnFile
        <5> QED
          BY <1>6, <1>t, <5>1
      <4>3. \A i \in 1..(n + 1) : i \in 1..n \/ i = n + 1
        BY <1>6
      <4>4. \A i \in 1..(n + 1) : buffer'["audit"][r][i] = {Audit(OnFile(r) + i, r)}
        <5>1. ASSUME NEW i \in 1..n PROVE buffer'["audit"][r][i] = {Audit(OnFile(r) + i, r)}
          BY <1>6, <4>1
        <5>2. buffer'["audit"][r][n + 1] = {Audit(OnFile(r) + (n + 1), r)}
          BY <1>5, <4>1, <4>2
        <5> QED
          BY <4>3, <5>1, <5>2
      <4> QED
        BY <1>6, <4>1, <4>2, <4>4
    <3> QED
      BY <1>2, <3>1, <3>2
  <2>3. ASSUME NEW a \in files'["audit"]
        PROVE  a.tick \in 1..OnFile(a.rank)' /\ a = Audit(a.tick, a.rank)
    <3>1. CASE a \in files["audit"]
      <4>1. a.rank \in Ranks /\ a.tick \in 1..OnFile(a.rank) /\ a = Audit(a.tick, a.rank)
        BY <2>1, <3>1 DEF AuditInv
      <4>2. CASE a.rank = r
        BY <1>6, <2>2, <4>1, <4>2
      <4>3. CASE a.rank # r
        BY <1>4, <4>1, <4>3
      <4> QED
        BY <4>1, <4>2, <4>3
    <3>2. CASE \E t \in 1..OnFile(r)' : a = Audit(t, r)
      BY <1>7, <3>2
    <3> QED
      BY <2>2, <3>1, <3>2
  <2>4. ASSUME NEW s \in Ranks, s # r
        PROVE  /\ OnFile(s)' \in Nat
               /\ \A t \in 1..OnFile(s)' : Audit(t, s) \in files'["audit"]
               /\ \A i \in 1..Len(buffer'["audit"][s]) :
                    buffer'["audit"][s][i] = {Audit(OnFile(s)' + i, s)}
    BY <1>3, <1>4, <2>2, <2>4 DEF AuditInv
  <2>5. ASSUME NEW s \in Ranks
        PROVE  /\ OnFile(s)' \in Nat
               /\ \A t \in 1..OnFile(s)' : Audit(t, s) \in files'["audit"]
               /\ \A i \in 1..Len(buffer'["audit"][s]) :
                    buffer'["audit"][s][i] = {Audit(OnFile(s)' + i, s)}
    BY <2>2, <2>4
  <2> QED
    BY <1>7, <2>3, <2>5 DEF AuditInv
<1>9. DeltaInv'
  BY <1>1, <1>3, <1>4, <1>t, KeepDelta
<1>10. LastChangeInv'
  BY <1>1, KeepWorld
<1>11. MemoryInv' /\ CountInv'
  <2>1. MemoryInv'
    BY <1>1, <1>3, <1>4 DEF MemoryInv, Remembered, world
  <2>2. \A t, s : Changes(t, s)' = Changes(t, s)
    BY <1>3, SameTruth
  <2>3. CountInv'
    BY <1>1, <1>3, <2>2 DEF CountInv
  <2> QED
    BY <2>1, <2>3
<1> QED
  BY <1>8, <1>9, <1>10, <1>11
LEMMA HistoryFlush ==
  ASSUME BaseInv, HistoryInv, NEW r \in Ranks, NEW c \in Channels, Flush(c, r)
  PROVE  HistoryInv'
<1> USE DEF HistoryInv
<1>1. pc[r] = "ending" /\ UNCHANGED <<world, pc, memory, changed, latest, stream>>
  BY DEF Flush
<1>2. /\ \A d \in Channels \ {c} : files'[d] = files[d]
      /\ \A d \in Channels, s \in Ranks : d # c \/ s # r => buffer'[d][s] = buffer[d][s]
      /\ buffer'[c][r] = <<>>
      /\ files'[c] = files[c] \cup UNION ToSet(buffer[c][r])
  BY FlushFacts DEF BaseInv
<1>3. /\ truth' = truth /\ tick' = tick
      /\ \A s \in Ranks : Seen(s)' = Seen(s) /\ Audited(s)' = Audited(s)
  BY <1>1 DEF Seen, Audited, tick, world
<1>t. /\ "delta" \in Channels /\ "audit" \in Channels /\ "delta" # "audit"
      /\ files["delta"] \subseteq DeltaRows /\ files["audit"] \subseteq AuditRows
  BY DEF Channels, BaseInv, TypeInv, TypeOK
<1>4. LastChangeInv'
  BY <1>1, KeepWorld
<1>5. MemoryInv' /\ CountInv'
  <2>1. MemoryInv'
    BY <1>1, <1>3 DEF MemoryInv, Remembered, world
  <2>2. \A t, s : Changes(t, s)' = Changes(t, s)
    BY <1>3, SameTruth
  <2>3. CountInv'
    BY <1>1, <1>3, <2>2 DEF CountInv
  <2> QED
    BY <2>1, <2>3
<1>6. DeltaInv'
  <2>1. CASE c = "audit"
    BY <1>2, <1>3, <1>t, <2>1, KeepDelta
  <2>2. CASE c = "delta"
    <3>1. \A t, s : Changes(t, s)' = Changes(t, s)
      BY <1>3, SameTruth
    <3>2. /\ files'["delta"] = files["delta"] \cup UNION ToSet(buffer["delta"][r])
          /\ UNION ToSet(buffer'["delta"][r]) = {}
          /\ \A s \in Ranks : s # r => buffer'["delta"][s] = buffer["delta"][s]
      BY <1>2, <1>t, <2>2, NoTable
    <3>3. ASSUME NEW d \in files'["delta"]
          PROVE  d.tick \in 1..Seen(d.rank)' /\ d \in Changes(d.tick, d.rank)
      <4>1. CASE d \in files["delta"]
        BY <1>3, <1>t, <4>1 DEF DeltaInv, DeltaRows
      <4>2. CASE d \in UNION ToSet(buffer["delta"][r])
        <5>1. d.rank = r
          BY <4>2 DEF BaseInv, OwnRows
        <5> QED
          BY <1>3, <4>2, <5>1 DEF DeltaInv
      <4> QED
        BY <3>2, <4>1, <4>2
    <3>4. ASSUME NEW s \in Ranks, NEW d \in UNION ToSet(buffer'["delta"][s])
          PROVE  d.tick \in 1..Seen(s)' /\ d \in Changes(d.tick, s)
      BY <1>3, <3>2, <3>4 DEF DeltaInv
    <3>5. ASSUME NEW s \in Ranks, NEW t \in 1..Seen(s)'
          PROVE  Changes(t, s) \subseteq files'["delta"] \cup UNION ToSet(buffer'["delta"][s])
      <4>1. Changes(t, s) \subseteq files["delta"] \cup UNION ToSet(buffer["delta"][s])
        BY <1>3 DEF DeltaInv
      <4> QED
        BY <3>2, <4>1
    <3> QED
      BY <3>1, <3>3, <3>4, <3>5 DEF DeltaInv
  <2> QED
    BY <2>1, <2>2 DEF Channels
<1>7. AuditInv'
  <2>1. CASE c = "delta"
    BY <1>2, <1>3, <1>t, <2>1, KeepAudit
  <2>2. CASE c = "audit"
    <3>1. \A t, s : Audit(t, s)' = Audit(t, s) /\ Audit(t, s).tick = t /\ Audit(t, s).rank = s
      <4>1. \A t, s : Audit(t, s)' = Audit(t, s)
        BY <1>3, SameTruth
      <4> QED
        BY <4>1 DEF Audit
    <3>2. /\ files'["audit"] = files["audit"] \cup UNION ToSet(buffer["audit"][r])
          /\ buffer'["audit"][r] = <<>>
          /\ \A s \in Ranks : s # r => buffer'["audit"][s] = buffer["audit"][s]
      BY <1>2, <1>t, <2>2
    <3> DEFINE n == Len(buffer["audit"][r])
    <3>3. /\ n \in Nat /\ OnFile(r) \in Nat
          /\ \A a : a \in UNION ToSet(buffer["audit"][r]) <=>
                    \E i \in 1..n : a = Audit(OnFile(r) + i, r)
      BY BufferedAudits
    <3>4. /\ OnFile(r)' = OnFile(r) + n
          /\ \A s \in Ranks : s # r => OnFile(s)' = OnFile(s)
      <4>1. Audited(r) = OnFile(r) + n
        <5>1. Audited(r) \in Int
          BY DEF Audited, BaseInv, TypeInv, TypeOK, tick
        <5> QED
          BY <3>3, <5>1 DEF OnFile
      <4> QED
        BY <1>3, <3>2, <3>3, <4>1 DEF OnFile
    <3> HIDE DEF n
    <3>5. ASSUME NEW a \in files'["audit"]
          PROVE  a.tick \in 1..OnFile(a.rank)' /\ a = Audit(a.tick, a.rank)
      <4>1. CASE a \in files["audit"]
        <5>1. a.rank \in Ranks /\ a.tick \in 1..OnFile(a.rank) /\ a = Audit(a.tick, a.rank)
          BY <1>t, <4>1 DEF AuditInv, AuditRows
        <5>2. CASE a.rank = r
          BY <3>3, <3>4, <5>1, <5>2
        <5>3. CASE a.rank # r
          BY <3>4, <5>1, <5>3
        <5> QED
          BY <5>1, <5>2, <5>3
      <4>2. CASE a \in UNION ToSet(buffer["audit"][r])
        <5>1. PICK i \in 1..n : a = Audit(OnFile(r) + i, r)
          BY <3>3, <4>2
        <5>2. a.tick = OnFile(r) + i /\ a.rank = r /\ a = Audit(a.tick, a.rank)
          BY <3>1, <5>1
        <5>3. OnFile(r) + i \in 1..(OnFile(r) + n)
          BY <3>3
        <5> QED
          BY <3>4, <5>2, <5>3
      <4> QED
        BY <3>2, <4>1, <4>2
    <3>6. ASSUME NEW t \in 1..(OnFile(r) + n)
          PROVE  Audit(t, r) \in files'["audit"]
      <4>1. CASE t \in 1..OnFile(r)
        BY <3>2, <4>1 DEF AuditInv
      <4>2. CASE t - OnFile(r) \in 1..n
        <5>1. t = OnFile(r) + (t - OnFile(r))
          BY <3>3
        <5>2. Audit(t, r) \in UNION ToSet(buffer["audit"][r])
          BY <3>3, <4>2, <5>1
        <5> QED
          BY <3>2, <5>2
      <4> QED
        BY <3>3, <4>1, <4>2
    <3>7. ASSUME NEW s \in Ranks
          PROVE  /\ OnFile(s)' \in Nat
                 /\ \A t \in 1..OnFile(s)' : Audit(t, s) \in files'["audit"]
                 /\ \A i \in 1..Len(buffer'["audit"][s]) :
                      buffer'["audit"][s][i] = {Audit(OnFile(s)' + i, s)}
      <4>1. CASE s = r
        BY <3>2, <3>3, <3>4, <3>6, <4>1
      <4>2. CASE s # r
        BY <3>2, <3>4, <4>2 DEF AuditInv
      <4> QED
        BY <4>1, <4>2
    <3> QED
      BY <3>1, <3>5, <3>7 DEF AuditInv
  <2> QED
    BY <2>1, <2>2 DEF Channels
<1> QED
  BY <1>4, <1>5, <1>6, <1>7

\* Steps between the loggers' work.
LEMMA HistoryRest ==
  ASSUME BaseInv, HistoryInv, UNCHANGED <<world, memory, changed, buffer, files>>,
         \A r \in Ranks : /\ Seen(r)' = Seen(r) /\ Audited(r)' = Audited(r)
                          /\ pc'[r] = "auditing" => pc[r] = "auditing"
  PROVE  HistoryInv'
<1> USE DEF HistoryInv
<1>1. truth' = truth /\ tick' = tick
  BY DEF world, tick
<1>t. files["delta"] \subseteq DeltaRows /\ files["audit"] \subseteq AuditRows
  BY DEF BaseInv, TypeInv, TypeOK
<1>2. LastChangeInv'
  BY KeepWorld
<1>3. DeltaInv' /\ AuditInv'
  BY <1>1, <1>t, KeepDelta, KeepAudit
<1>4. MemoryInv'
  BY <1>1 DEF MemoryInv, Remembered, world
<1>5. CountInv'
  <2>1. \A t, s : Changes(t, s)' = Changes(t, s)
    BY <1>1, SameTruth
  <2> QED
    BY <1>1, <2>1 DEF CountInv
<1> QED
  BY <1>2, <1>3, <1>4, <1>5

LEMMA HistoryStep ==
  ASSUME BaseInv, HistoryInv, [Next]_vars
  PROVE  HistoryInv'
<1>t. pc \in [Ranks -> Phases] /\ Root \in Ranks
  BY StateLogAssumption DEF BaseInv, TypeInv, TypeOK, StateLogAssumption
<1>1. CASE Publish
  <2>1. /\ pc[Root] = "publishing" /\ pc' = [pc EXCEPT ![Root] = "stepped"]
        /\ UNCHANGED <<world, memory, changed, buffer, files, latest>>
    BY <1>1 DEF Publish, Goes
  <2>2. pc'[Root] = "stepped" /\ \A s \in Ranks : s # Root => pc'[s] = pc[s]
    BY <1>t, <2>1
  <2> QED
    BY <2>1, <2>2, HistoryRest DEF Seen, Audited, world, tick
<1>2. CASE BeginEnd
  <2>1. /\ \A r \in Ranks : pc[r] = "stepped" /\ pc'[r] = "ending"
        /\ UNCHANGED <<world, memory, changed, buffer, files, latest, stream>>
    BY <1>2 DEF BeginEnd, AllGo
  <2> QED
    BY <2>1, HistoryRest DEF Seen, Audited, world, tick
<1>3. ASSUME NEW r \in Ranks, End(r) PROVE HistoryInv'
  <2>1. /\ pc[r] = "ending" /\ pc' = [pc EXCEPT ![r] = "ended"]
        /\ UNCHANGED <<world, memory, changed, buffer, files, latest, stream>>
    BY <1>3 DEF End, Goes
  <2>2. pc'[r] = "ended" /\ \A s \in Ranks : s # r => pc'[s] = pc[s]
    BY <1>t, <2>1
  <2> QED
    BY <2>1, <2>2, HistoryRest DEF Seen, Audited, world, tick
<1>4. CASE UNCHANGED vars
  BY <1>4, HistoryRest DEF vars, Seen, Audited, world, tick
<1> QED
  BY <1>1, <1>2, <1>3, <1>4, HistoryTick, HistoryLogDelta, HistoryLogAudit, HistoryFlush
     DEF Next, RankStep
-----------------------------------------------------------------------------
(* What the reconstruction finds in the files. *)

\* A row on file says when and where its person changed.
LEMMA FileRows ==
  ASSUME BaseInv, HistoryInv, NEW d \in files["delta"]
  PROVE  /\ d = Row(d.tick, d.agent) /\ d.tick \in 1..tick /\ d.rank \in Ranks
         /\ d.agent \in Persons /\ Changed(d.tick, d.agent)
         /\ d.rank = truth[d.tick].rank[d.agent] /\ d.state = truth[d.tick].state[d.agent]
<1>1. d.rank \in Ranks
  BY DEF BaseInv, TypeInv, TypeOK, DeltaRows
<1>2. d.tick \in 1..Seen(d.rank) /\ d \in Changes(d.tick, d.rank)
  BY DEF HistoryInv, DeltaInv
<1>3. tick \in Nat /\ Seen(d.rank) \in Int /\ Seen(d.rank) <= tick
  BY DEF Seen, BaseInv, TypeInv, TypeOK, tick
<1>4. d.tick \in 1..tick
  BY <1>2, <1>3
<1>5. d = Row(d.tick, d.agent) /\ d.agent \in At(d.tick, d.rank) /\ Changed(d.tick, d.agent)
  BY <1>1, <1>2, <1>4, ChangesFacts
<1> QED
  BY <1>1, <1>4, <1>5 DEF Row, At

LEMMA FinitePeople ==
  ASSUME NEW t, NEW r
  PROVE  /\ IsFiniteSet(At(t, r))
         /\ IsFiniteSet(True(t, r)) /\ Cardinality(True(t, r)) = Cardinality(At(t, r))
<1> DEFINE f == [p \in At(t, r) |-> <<p, truth[t].state[p]>>]
<1>1. IsFiniteSet(At(t, r))
  <2>1. At(t, r) \in SUBSET Persons
    BY DEF At
  <2> QED
    BY <2>1, StateLogAssumption, FS_Subset DEF StateLogAssumption
<1>2. True(t, r) = {<<p, truth[t].state[p]>> : p \in At(t, r)}
  BY DEF True, At
<1>3. /\ f \in [At(t, r) -> True(t, r)]
      /\ \A y \in True(t, r) : \E x \in At(t, r) : f[x] = y
      /\ \A x, y \in At(t, r) : f[x] = f[y] => x = y
  BY <1>2
<1> HIDE DEF f
<1> QED
  BY <1>1, <1>3, SameCount

\* The row of the latest change of a person is the latest on file, if it is on file.
LEMMA LatestChange ==
  ASSUME BaseInv, HistoryInv, NEW t \in 1..tick, ArrivalsNoticed(t), NEW p \in Persons
  PROVE  \E u \in 1..t :
           /\ Changed(u, p) /\ p \in At(u, truth[t].rank[p])
           /\ truth[u].rank[p] = truth[t].rank[p] /\ truth[u].state[p] = truth[t].state[p]
           /\ \A d \in files["delta"] : d.agent = p /\ d.tick <= t => d.tick <= u
           /\ Row(u, p) \in files["delta"] => Row(u, p) \in LatestRows(t)
<1>1. PICK u \in 1..t :
        /\ Changed(u, p)
        /\ truth[u].rank[p] = truth[t].rank[p] /\ truth[u].state[p] = truth[t].state[p]
        /\ \A v \in (u + 1)..t : ~Changed(v, p)
  BY DEF HistoryInv, LastChangeInv, LatestIs
<1>2. ASSUME NEW d \in files["delta"], d.agent = p, d.tick <= t PROVE d.tick <= u
  <2>1. d.tick \in 1..tick /\ Changed(d.tick, p)
    BY <1>2, FileRows
  <2>2. d.tick \notin (u + 1)..t
    BY <1>1, <2>1
  <2> QED
    BY <1>2, <2>1, <2>2
<1>3. Row(u, p).tick = u /\ Row(u, p).agent = p
  BY DEF Row
<1>4. Row(u, p) \in files["delta"] => Row(u, p) \in LatestRows(t)
  BY <1>1, <1>2, <1>3 DEF LatestRows
<1>5. p \in At(u, truth[t].rank[p])
  BY <1>1 DEF At
<1> QED
  BY <1>1, <1>2, <1>4, <1>5

\* A rank whose changes are all on file misses none of its residents.
LEMMA ResidentsFound ==
  ASSUME BaseInv, HistoryInv, NEW t \in 1..tick, ArrivalsNoticed(t), NEW r \in Ranks,
         \A u \in 1..t : Changes(u, r) \subseteq files["delta"]
  PROVE  True(t, r) \subseteq Reconstructed(t, r)
<1> SUFFICES ASSUME NEW p \in Persons, truth[t].rank[p] = r
             PROVE  <<p, truth[t].state[p]>> \in Reconstructed(t, r)
  BY DEF True
<1>1. PICK u \in 1..t :
        /\ Changed(u, p) /\ p \in At(u, r)
        /\ truth[u].rank[p] = r /\ truth[u].state[p] = truth[t].state[p]
        /\ Row(u, p) \in files["delta"] => Row(u, p) \in LatestRows(t)
  BY LatestChange
<1>2. Row(u, p) \in Changes(u, r)
  BY <1>1 DEF Changes
<1>3. Row(u, p) \in LatestRows(t)
  BY <1>1, <1>2
<1>4. Row(u, p).rank = r /\ Row(u, p).agent = p /\ Row(u, p).state = truth[t].state[p]
  BY <1>1 DEF Row
<1> QED
  BY <1>3, <1>4 DEF Reconstructed

\* When all changes are on file, nobody is found elsewhere than where they are.
LEMMA NobodyElse ==
  ASSUME BaseInv, HistoryInv, NEW t \in 1..tick, ArrivalsNoticed(t), NEW r \in Ranks,
         \A s \in Ranks : \A u \in 1..t : Changes(u, s) \subseteq files["delta"]
  PROVE  Reconstructed(t, r) \subseteq True(t, r)
<1> SUFFICES ASSUME NEW d \in LatestRows(t), d.rank = r
             PROVE  <<d.agent, d.state>> \in True(t, r)
  BY DEF Reconstructed
<1>1. /\ d \in files["delta"] /\ d.tick <= t
      /\ \A e \in files["delta"] : e.agent = d.agent /\ e.tick <= t => e.tick <= d.tick
  BY DEF LatestRows
<1>2. /\ d.tick \in 1..tick /\ d.agent \in Persons
      /\ d.rank = truth[d.tick].rank[d.agent] /\ d.state = truth[d.tick].state[d.agent]
  BY <1>1, FileRows
<1>3. PICK u \in 1..t :
        /\ Changed(u, d.agent) /\ d.agent \in At(u, truth[t].rank[d.agent])
        /\ truth[u].rank[d.agent] = truth[t].rank[d.agent]
        /\ truth[u].state[d.agent] = truth[t].state[d.agent]
        /\ \A e \in files["delta"] : e.agent = d.agent /\ e.tick <= t => e.tick <= u
  BY <1>2, LatestChange
<1>4. truth[t].rank[d.agent] \in Ranks
  <2> DEFINE S == [rank : [Persons -> Ranks], state : [Persons -> States]]
  <2>1. truth \in Seq(S)
    BY DEF BaseInv, TypeInv, TypeOK
  <2>2. t \in 1..Len(truth)
    BY DEF tick
  <2> HIDE DEF S
  <2>3. truth[t] \in S
    BY <2>1, <2>2
  <2> QED
    BY <1>2, <2>3 DEF S
<1>5. Row(u, d.agent) \in files["delta"]
  BY <1>3, <1>4 DEF Changes
<1>6. Row(u, d.agent).tick = u /\ Row(u, d.agent).agent = d.agent
  BY DEF Row
<1>7. d.tick = u
  <2>1. u <= d.tick
    BY <1>1, <1>3, <1>5, <1>6
  <2>2. d.tick <= u
    BY <1>1, <1>3
  <2> QED
    BY <1>2, <1>3, <2>1, <2>2
<1> QED
  BY <1>2, <1>3, <1>7 DEF True

\* Each person is found once.
LEMMA FiniteReconstruction ==
  ASSUME BaseInv, HistoryInv, NEW t, NEW r
  PROVE  IsFiniteSet(Reconstructed(t, r))
<1> DEFINE rows == {d \in LatestRows(t) : d.rank = r}
           S == {p \in Persons : \E d \in rows : d.agent = p}
           the(p) == CHOOSE d \in rows : d.agent = p
           f == [p \in S |-> <<p, the(p).state>>]
<1>1. ASSUME NEW d \in rows, NEW e \in rows, d.agent = e.agent PROVE d = e
  <2>1. /\ d \in files["delta"] /\ e \in files["delta"] /\ d.tick <= t /\ e.tick <= t
        /\ d.tick <= e.tick /\ e.tick <= d.tick
    BY <1>1 DEF LatestRows
  <2>2. d.tick \in Int /\ e.tick \in Int
    BY <2>1, FileRows
  <2> QED
    BY <1>1, <2>1, <2>2, FileRows
<1>2. \A d \in rows : d.agent \in Persons
  BY FileRows DEF LatestRows
<1>3. \A p \in S : the(p) \in rows /\ the(p).agent = p
  OBVIOUS
<1>4. Reconstructed(t, r) = {<<d.agent, d.state>> : d \in rows}
  BY DEF Reconstructed
<1> HIDE DEF rows, the
<1>5. \A d \in rows : d.agent \in S /\ the(d.agent) = d
  BY <1>1, <1>2, <1>3
<1>6. f \in [S -> Reconstructed(t, r)]
  BY <1>3, <1>4
<1>7. \A y \in Reconstructed(t, r) : \E x \in S : f[x] = y
  BY <1>4, <1>5
<1>8. IsFiniteSet(S)
  <2>1. S \in SUBSET Persons
    OBVIOUS
  <2> QED
    BY <2>1, StateLogAssumption, FS_Subset DEF StateLogAssumption
<1> HIDE DEF S, f
<1> QED
  BY <1>6, <1>7, <1>8, FiniteImage
-----------------------------------------------------------------------------
(* Theorems. *)

\* IInv holds in every reachable state, wherever people go.
THEOREM Invariance == Spec => []IInv
<1>1. Init => IInv
  BY BaseInit, HistoryInit DEF IInv
<1>2. IInv /\ [Next]_vars => IInv'
  BY BaseStep, HistoryStep DEF IInv
<1> QED
  BY <1>1, <1>2, PTL DEF Spec

\* _ObservationBridge.on_step: between ticks every change of rank 0's people is in the
\* stream, also while the file that will hold it is not written.
THEOREM StreamIsComplete == Spec => []StreamMissesNothing
<1>1. IInv => StreamMissesNothing
  <2> SUFFICES ASSUME BaseInv, pc[Root] \in {"stepped", "ending", "ended"},
                      NEW d \in files["delta"] \cup UNION ToSet(buffer["delta"][Root])
               PROVE  d \in (UNION ToSet(stream)) \cup {e \in DeltaRows : e.rank # Root}
    BY DEF IInv, StreamMissesNothing
  <2>1. d \in DeltaRows
    BY StateLogAssumption DEF StateLogAssumption, BaseInv, TypeInv, TypeOK, OwnRows
  <2>2. d.rank # Root \/ d \in UNION ToSet(stream)
    BY DEF BaseInv, StreamInv
  <2> QED
    BY <2>1, <2>2
<1> QED
  BY <1>1, Invariance, PTL

\* reconstruct_agent_state, on the files of a run that may have crashed anywhere: what its
\* checks accept gives an audited rank and tick its true residents and states, unless by
\* then somebody came back to a rank in the state in which it had last seen them.
THEOREM AcceptedFilesAreTrue == Spec => []AcceptedIsTrue
<1>1. IInv => AcceptedIsTrue
  <2> SUFFICES ASSUME IInv PROVE AcceptedIsTrue
    OBVIOUS
  <2>1. BaseInv /\ HistoryInv
    BY DEF IInv
  <2>2. ASSUME ChangesAdded, PeopleAdded, NEW a \in files["audit"], ArrivalsNoticed(a.tick)
        PROVE  Reconstructed(a.tick, a.rank) = True(a.tick, a.rank)
    <3> DEFINE t == a.tick
               r == a.rank
    <3>1. r \in Ranks /\ t \in 1..OnFile(r) /\ a = Audit(t, r)
      BY <2>1, <2>2 DEF HistoryInv, AuditInv, BaseInv, TypeInv, TypeOK, AuditRows
    <3>2. OnFile(r) \in Nat /\ OnFile(r) <= tick /\ tick \in Nat
      <4>1. Len(buffer["audit"][r]) \in Nat /\ OnFile(r) \in Nat
        BY <2>1, <3>1, BufferedAudits DEF HistoryInv
      <4>2. tick \in Nat
        BY <2>1 DEF BaseInv, TypeInv, TypeOK, tick
      <4> QED
        BY <4>1, <4>2 DEF OnFile, Audited
    <3> HIDE DEF t, r
    <3>3. ASSUME NEW u \in 1..t PROVE Changes(u, r) \subseteq files["delta"]
      <4> DEFINE found == {d \in files["delta"] : d.tick = u /\ d.rank = r}
      <4>1. u \in 1..OnFile(r) /\ u \in 1..tick
        BY <3>1, <3>2
      <4>2. Audit(u, r) \in files["audit"]
        BY <2>1, <3>1, <4>1 DEF HistoryInv, AuditInv
      <4>3. Cardinality(Changes(u, r)) = Cardinality(found)
        <5>1. /\ Audit(u, r).changed = Cardinality(Changes(u, r))
              /\ Audit(u, r).tick = u /\ Audit(u, r).rank = r
          BY DEF Audit
        <5> QED
          BY <2>2, <4>2, <5>1 DEF ChangesAdded
      <4>4. found \in SUBSET Changes(u, r)
        BY <2>1 DEF HistoryInv, DeltaInv
      <4>5. IsFiniteSet(Changes(u, r))
        BY <2>1, <3>1, <4>1, ChangesFacts
      <4>6. found \subseteq files["delta"]
        OBVIOUS
      <4> HIDE DEF found
      <4>7. Changes(u, r) = found
        BY <4>3, <4>4, <4>5, FS_Subset
      <4> QED
        BY <4>6, <4>7
    <3>4. t \in 1..tick
      BY <3>1, <3>2
    <3>5. True(t, r) \in SUBSET Reconstructed(t, r)
      BY <2>1, <2>2, <3>1, <3>3, <3>4, ResidentsFound DEF t
    <3>6. Cardinality(Reconstructed(t, r)) = Cardinality(True(t, r))
      <4>1. Cardinality(Reconstructed(t, r)) = a.evaluated
        BY <2>2 DEF PeopleAdded, t, r
      <4>2. a.evaluated = Cardinality(At(t, r))
        BY <3>1 DEF Audit
      <4> QED
        BY <4>1, <4>2, FinitePeople
    <3>7. Reconstructed(t, r) = True(t, r)
      BY <2>1, <3>5, <3>6, FiniteReconstruction, FS_Subset
    <3> QED
      BY <3>7 DEF t, r
  <2>3. TypeOK
    BY <2>1 DEF BaseInv, TypeInv
  <2> QED
    BY <2>2, <2>3 DEF AcceptedIsTrue, Accepted
<1> QED
  BY <1>1, Invariance, PTL

\* on_end and the writers' flush: the files of any run that ended are complete, and the
\* checks of reconstruct_agent_state for rows and changes pass; that for people passes too,
\* unless somebody came back to a rank in the state in which it had last seen them.
THEOREM FinishedRunsAreAccepted == Spec => []FinishedIsAccepted
<1>1. IInv => FinishedIsAccepted
  <2> SUFFICES ASSUME IInv, \A r \in Ranks : pc[r] = "ended", tick > 0
               PROVE  /\ \A t \in 1..tick, r \in Ranks :
                           \E a \in files["audit"] : a.tick = t /\ a.rank = r
                      /\ NoDuplicates /\ ChangesAdded
                      /\ ArrivalsNoticed(tick) => Accepted
    BY DEF FinishedIsAccepted
  <2>1. BaseInv /\ HistoryInv
    BY DEF IInv
  <2>2. /\ tick \in Nat /\ Root \in Ranks
        /\ \A r \in Ranks : buffer["delta"][r] = <<>> /\ buffer["audit"][r] = <<>>
    BY <2>1, StateLogAssumption
       DEF StateLogAssumption, BaseInv, TypeInv, TypeOK, EndedInv, Channels, tick
  <2>3. \A r \in Ranks : Seen(r) = tick /\ Audited(r) = tick /\ OnFile(r) = tick
    BY <2>2 DEF Seen, Audited, OnFile
  <2>4. \A r \in Ranks : \A t \in 1..tick : Changes(t, r) \subseteq files["delta"]
    BY <2>1, <2>2, <2>3, NoTable DEF HistoryInv, DeltaInv
  <2>5. \A r \in Ranks : \A t \in 1..tick : Audit(t, r) \in files["audit"]
    BY <2>1, <2>3 DEF HistoryInv, AuditInv
  <2>6. \A a \in files["audit"] :
          a.rank \in Ranks /\ a.tick \in 1..tick /\ a = Audit(a.tick, a.rank)
    BY <2>1, <2>3 DEF HistoryInv, AuditInv, BaseInv, TypeInv, TypeOK, AuditRows
  <2>7. \A t, r : /\ Audit(t, r).tick = t /\ Audit(t, r).rank = r
                  /\ Audit(t, r).changed = Cardinality(Changes(t, r))
                  /\ Audit(t, r).evaluated = Cardinality(At(t, r))
    BY DEF Audit
  <2>8. files["audit"] # {}
    BY <2>2, <2>5
  <2>9. NoDuplicates
    BY <2>1, FileRows DEF NoDuplicates
  <2>10. ChangesAdded
    <3>1. ASSUME NEW d \in files["delta"]
          PROVE  \E a \in files["audit"] : a.tick = d.tick /\ a.rank = d.rank
      BY <2>1, <2>5, <2>7, FileRows
    <3>2. ASSUME NEW a \in files["audit"]
          PROVE  a.changed =
                   Cardinality({d \in files["delta"] : d.tick = a.tick /\ d.rank = a.rank})
      <4>1. a.changed = Cardinality(Changes(a.tick, a.rank))
        BY <2>6, <2>7
      <4>2. Changes(a.tick, a.rank) =
              {d \in files["delta"] : d.tick = a.tick /\ d.rank = a.rank}
        <5>1. \A d \in Changes(a.tick, a.rank) :
                d \in files["delta"] /\ d.tick = a.tick /\ d.rank = a.rank
          BY <2>1, <2>4, <2>6, ChangesFacts
        <5>2. \A d \in files["delta"] : d \in Changes(d.tick, d.rank)
          BY <2>1 DEF HistoryInv, DeltaInv
        <5> QED
          BY <5>1, <5>2
      <4> QED
        BY <4>1, <4>2
    <3> QED
      BY <3>1, <3>2 DEF ChangesAdded
  <2>11. ASSUME ArrivalsNoticed(tick) PROVE PeopleAdded
    <3> SUFFICES ASSUME NEW a \in files["audit"]
                 PROVE  Cardinality(Reconstructed(a.tick, a.rank)) = a.evaluated
      BY DEF PeopleAdded
    <3>1. a.rank \in Ranks /\ a.tick \in 1..tick /\ a.evaluated = Cardinality(At(a.tick, a.rank))
      BY <2>6, <2>7
    <3>2. \A s \in Ranks : \A u \in 1..a.tick : Changes(u, s) \subseteq files["delta"]
      <4>1. \A u \in 1..a.tick : u \in 1..tick
        BY <2>2, <3>1
      <4> QED
        BY <2>4, <4>1
    <3>3. Reconstructed(a.tick, a.rank) = True(a.tick, a.rank)
      <4> ArrivalsNoticed(a.tick)
        <5>1. \A u \in 2..a.tick : u \in 2..tick
          BY <2>2, <3>1
        <5> QED
          BY <2>11, <5>1 DEF ArrivalsNoticed
      <4>1. True(a.tick, a.rank) \subseteq Reconstructed(a.tick, a.rank)
        BY <2>1, <3>1, <3>2, ResidentsFound
      <4>2. Reconstructed(a.tick, a.rank) \subseteq True(a.tick, a.rank)
        BY <2>1, <3>1, <3>2, NobodyElse
      <4> QED
        BY <4>1, <4>2
    <3> QED
      BY <3>1, <3>3, FinitePeople
  <2>12. \A t \in 1..tick, r \in Ranks : \E a \in files["audit"] : a.tick = t /\ a.rank = r
    BY <2>5, <2>7
  <2> QED
    BY <2>8, <2>9, <2>10, <2>11, <2>12 DEF Accepted
<1> QED
  BY <1>1, Invariance, PTL
=============================================================================
