------------------------------ MODULE StateLog ------------------------------
(***************************************************************************)
(* Changed-only state logging (DeltaAgentStateLogger and                   *)
(* _ObserverLogWriter of casmpop.py, one of each on every rank), what the  *)
(* runner streams of it (_ObservationBridge of adapters/runner.py), and    *)
(* the script that turns the files back into dense state                   *)
(* (scripts/reconstruct_agent_state.py).                                   *)
(*                                                                         *)
(* The normalized state of a person is a member of States.  Where people   *)
(* are and which state they are in is an input here: Migration says how    *)
(* they get there.  The properties speak of the files of every state, so a *)
(* run that crashes anywhere is covered: what a rank still buffers is lost *)
(* and the files stay as they are.                                         *)
(***************************************************************************)
EXTENDS Naturals, Sequences, FiniteSets, SequencesExt

CONSTANTS
  Ranks, Root,   \* the processes; rank 0, whose observations are streamed
  Persons,
  States,        \* normalized states
  Unlogged,      \* no state in a logger's memory
  Ticks,         \* the scheduled length of a run
  FlushTicks     \* observers.flush_ticks: tables per file

ASSUME StateLogAssumption ==
  /\ Root \in Ranks
  /\ IsFiniteSet(Persons)
  /\ Unlogged \notin States
  /\ Ticks \in Nat
  /\ FlushTicks \in Nat \ {0}

Channels == {"delta", "audit"}

VARIABLES
  rank,      \* where each person is
  state,     \* the person's normalized state
  truth,     \* rank and state of everybody after each tick (history)
  pc,        \* what each rank's observers are doing
  memory,    \* _previous_hash_by_agent_id of each rank's logger
  changed,   \* agents_changed of each rank's current step
  buffer,    \* _pending of each rank's two writers, a sequence of tables
  files,     \* the rows on disk
  latest,    \* _last_delta_table on rank 0
  stream     \* the delta tables rank 0's bridge has published

world == <<rank, state, truth>>
vars == <<world, pc, memory, changed, buffer, files, latest, stream>>

tick == Len(truth)

DeltaRows == [tick : 1..Ticks, rank : Ranks, agent : Persons, state : States]
AuditRows == [tick : 1..Ticks, rank : Ranks, evaluated : Nat, changed : Nat]
Phases == {"stepped", "logging", "auditing", "publishing", "ending", "ended"}

TypeOK ==
  /\ rank \in [Persons -> Ranks]
  /\ state \in [Persons -> States]
  /\ truth \in Seq([rank : [Persons -> Ranks], state : [Persons -> States]]) /\ tick <= Ticks
  /\ pc \in [Ranks -> Phases]
  /\ memory \in [Ranks -> [Persons -> States \cup {Unlogged}]]
  /\ changed \in [Ranks -> Nat]
  /\ \A r \in Ranks, c \in Channels : Len(buffer[c][r]) < FlushTicks
  /\ files["delta"] \subseteq DeltaRows
  /\ files["audit"] \subseteq AuditRows
  /\ latest \subseteq DeltaRows

Init ==
  /\ rank \in [Persons -> Ranks]
  /\ state \in [Persons -> States]
  /\ truth = <<>>
  /\ pc = [r \in Ranks |-> "stepped"]
  /\ memory = [r \in Ranks |-> [p \in Persons |-> Unlogged]]
  /\ changed = [r \in Ranks |-> 0]
  /\ buffer = [c \in Channels |-> [r \in Ranks |-> <<>>]]
  /\ files = [c \in Channels |-> {}]
  /\ latest = {}
  /\ stream = <<>>
-----------------------------------------------------------------------------
Goes(r, from, to) == pc[r] = from /\ pc' = [pc EXCEPT ![r] = to]
AllGo(from, to) == (\A r \in Ranks : pc[r] = from) /\ pc' = [r \in Ranks |-> to]
Residents(r) == {p \in Persons : rank[p] = r}

\* A tick of the model up to log_agents: people move and change.
Step ==
  /\ tick < Ticks
  /\ AllGo("stepped", "logging")
  /\ rank' \in [Persons -> Ranks]
  /\ state' \in [Persons -> States]
  /\ truth' = Append(truth, [rank |-> rank', state |-> state'])
  /\ UNCHANGED <<memory, changed, buffer, files, latest, stream>>

\* _ObserverLogWriter.write: a file is written for every FlushTicks tables.
Write(c, r, table) ==
  LET tables == Append(buffer[c][r], table)
      full == Len(tables) >= FlushTicks IN
  /\ buffer' = [buffer EXCEPT ![c][r] = IF full THEN <<>> ELSE tables]
  /\ files' = [files EXCEPT ![c] = IF full THEN @ \cup UNION ToSet(tables) ELSE @]

\* What _delta_row leaves in the logger's memory.
Remembers(r, p) == IF rank[p] = r THEN state[p] ELSE memory[r][p]

\* Mutant: the table is not shown before its file is written.
LogDeltaToFile(r) ==
  LET rows == {[tick |-> tick, rank |-> r, agent |-> p, state |-> state[p]] :
                 p \in {q \in Residents(r) : memory[r][q] # state[q]}} IN
  /\ Goes(r, "logging", "auditing")
  /\ memory' = [memory EXCEPT ![r] = [p \in Persons |-> Remembers(r, p)]]
  /\ changed' = [changed EXCEPT ![r] = Cardinality(rows)]
  /\ IF rows = {} THEN UNCHANGED <<buffer, files>> ELSE Write("delta", r, rows)
  /\ latest' = IF r = Root /\ files' # files THEN rows ELSE latest
  /\ UNCHANGED <<world, stream>>

\* DeltaAgentStateLogger.on_step, first half: a row for each resident whose state is
\* not the one this rank saw last, and no table at all if there is no such row.
LogDelta(r) ==
  LET rows == {[tick |-> tick, rank |-> r, agent |-> p, state |-> state[p]] :
                 p \in {q \in Residents(r) : memory[r][q] # state[q]}} IN
  /\ Goes(r, "logging", "auditing")
  /\ memory' = [memory EXCEPT ![r] = [p \in Persons |-> Remembers(r, p)]]
  /\ changed' = [changed EXCEPT ![r] = Cardinality(rows)]
  /\ IF rows = {} THEN UNCHANGED <<buffer, files>> ELSE Write("delta", r, rows)
  /\ latest' = IF r = Root /\ rows # {} THEN rows ELSE latest
  /\ UNCHANGED <<world, stream>>

\* Mutant: only ticks with changes are audited.
LogAuditOfChanges(r) ==
  /\ Goes(r, "auditing", IF r = Root THEN "publishing" ELSE "stepped")
  /\ IF changed[r] = 0 THEN UNCHANGED <<buffer, files>>
     ELSE Write("audit", r, {[tick |-> tick, rank |-> r,
                              evaluated |-> Cardinality(Residents(r)), changed |-> changed[r]]})
  /\ UNCHANGED <<world, memory, changed, latest, stream>>

\* The second half: one audit row, whatever changed.
LogAudit(r) ==
  /\ Goes(r, "auditing", IF r = Root THEN "publishing" ELSE "stepped")
  /\ Write("audit", r, {[tick |-> tick, rank |-> r,
                         evaluated |-> Cardinality(Residents(r)), changed |-> changed[r]]})
  /\ UNCHANGED <<world, memory, changed, latest, stream>>

\* _ObservationBridge.on_step, which runs after the loggers: the logger's latest
\* table, whether or not it is of this tick.
Publish ==
  /\ Goes(Root, "publishing", "stepped")
  /\ stream' = IF latest = {} THEN stream ELSE Append(stream, latest)
  /\ UNCHANGED <<world, memory, changed, buffer, files, latest>>

\* The end event, at the end of the schedule or at a tick that was voted down.
BeginEnd ==
  /\ AllGo("stepped", "ending")
  /\ UNCHANGED <<world, memory, changed, buffer, files, latest, stream>>

\* _flush_observer_log_writers: each writer in turn, in the order of their first use.
Flush(c, r) ==
  /\ pc[r] = "ending" /\ buffer[c][r] # <<>>
  /\ buffer' = [buffer EXCEPT ![c][r] = <<>>]
  /\ files' = [files EXCEPT ![c] = @ \cup UNION ToSet(buffer[c][r])]
  /\ UNCHANGED <<world, pc, memory, changed, latest, stream>>

End(r) ==
  /\ Goes(r, "ending", "ended")
  /\ \A c \in Channels : buffer[c][r] = <<>>
  /\ UNCHANGED <<world, memory, changed, buffer, files, latest, stream>>

RankStep(r) ==
  LogDelta(r) \/ LogAudit(r) \/ End(r) \/ \E c \in Channels : Flush(c, r)

Next == Step \/ Publish \/ BeginEnd \/ \E r \in Ranks : RankStep(r)

Spec == Init /\ [][Next]_vars
-----------------------------------------------------------------------------
(* reconstruct_agent_state, on the files as they are. *)

\* _validate_delta_rows
NoDuplicates ==
  \A d, e \in files["delta"] : d.tick = e.tick /\ d.agent = e.agent => d = e

\* _validate_audit_change_counts
ChangesAdded ==
  /\ \A d \in files["delta"] : \E a \in files["audit"] : a.tick = d.tick /\ a.rank = d.rank
  /\ \A a \in files["audit"] :
       a.changed = Cardinality({d \in files["delta"] : d.tick = a.tick /\ d.rank = a.rank})

\* _reconstruct_rows: at each audited tick, everybody's latest row so far.
LatestRows(t) ==
  {d \in files["delta"] : d.tick <= t /\ \A e \in files["delta"] :
                                           e.agent = d.agent /\ e.tick <= t => e.tick <= d.tick}

\* The reconstructed people of rank r at tick t, with their states.
Reconstructed(t, r) ==
  {<<d.agent, d.state>> : d \in {e \in LatestRows(t) : e.rank = r}}

\* Mutant: the counts of evaluated agents are not compared.
PeopleUnchecked == TRUE

\* _validate_audit_agent_counts
PeopleAdded ==
  \A a \in files["audit"] : Cardinality(Reconstructed(a.tick, a.rank)) = a.evaluated

\* An audit log is required, a delta log is not.
Accepted == files["audit"] # {} /\ NoDuplicates /\ ChangesAdded /\ PeopleAdded
-----------------------------------------------------------------------------
(* Properties. *)

True(t, r) == {<<p, truth[t].state[p]>> : p \in {q \in Persons : truth[t].rank[q] = r}}
IsTrue == \A a \in files["audit"] : Reconstructed(a.tick, a.rank) = True(a.tick, a.rank)

\* At tick t the person is in the state in which that rank had last seen them.
AsLastSeen(t, p) ==
  \E u \in 1..(t - 1) :
    /\ truth[u].rank[p] = truth[t].rank[p] /\ truth[u].state[p] = truth[t].state[p]
    /\ \A v \in (u + 1)..(t - 1) : truth[v].rank[p] # truth[t].rank[p]

\* Up to tick t nobody came to a rank in the state in which it had last seen them: no
\* commuter who came back was exactly as on leaving.
ArrivalsNoticed(t) ==
  \A u \in 2..t, p \in Persons :
    truth[u].rank[p] # truth[u - 1].rank[p] => ~AsLastSeen(u, p)

\* Whatever was lost in a crash, however far each rank got and wherever people went: files
\* that reconstruct_agent_state accepts give an audited rank and tick exactly its residents
\* with their states, unless by then somebody came back to a rank as it had last seen them.
AcceptedIsTrue ==
  /\ TypeOK
  /\ Accepted => \A a \in files["audit"] :
       ArrivalsNoticed(a.tick) => Reconstructed(a.tick, a.rank) = True(a.tick, a.rank)

\* The files of any run that ended cover every rank and tick of it, with no row twice and as
\* many rows as each audit counts; the last check of reconstruct_agent_state, of how many
\* people there are, also passes unless somebody came back to a rank as it had last seen them.
FinishedIsAccepted ==
  (\A r \in Ranks : pc[r] = "ended") /\ tick > 0 =>
    /\ \A t \in 1..tick, r \in Ranks :
         \E a \in files["audit"] : a.tick = t /\ a.rank = r
    /\ NoDuplicates /\ ChangesAdded
    /\ ArrivalsNoticed(tick) => Accepted

\* Between ticks every change of rank 0's people is in the stream, also when the file
\* that will hold it is not written yet.
StreamMissesNothing ==
  pc[Root] \in {"stepped", "ending", "ended"} =>
    files["delta"] \cup UNION ToSet(buffer["delta"][Root])
      \subseteq (UNION ToSet(stream)) \cup {d \in DeltaRows : d.rank # Root}

\* README.md: "To reconstruct dense state rows from the changed-only output".  The
\* finished files of any run give back the states they were written from.
FinishedIsReconstructed ==
  (\A r \in Ranks : pc[r] = "ended") /\ tick > 0 => Accepted /\ IsTrue
=============================================================================
