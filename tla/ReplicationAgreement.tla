----------------------- MODULE ReplicationAgreement -----------------------
(***************************************************************************)
(* Proofs about Replication: that replicas agree.                          *)
(***************************************************************************)
EXTENDS ReplicationProofs

(* Agreement.  There is one history of engine states, which the committed commands
   determine; every replica is at some point of it, or has a wipe or a load ahead that
   brings it back to it. *)

Sound == Deterministic /\ "snapshot" \notin setting.faults

History(h) ==
    /\ h[0] = NewEngine
    /\ \A i \in 1..Len(clog) : h[i] = Step(now, h[i - 1], clog[i])

(* Where nodes restart, a state remembers every command since the last reset. *)
Remembers(h) ==
    "restart" \in setting.faults =>
       \A j \in 0..Len(clog) :
          \/ \E w \in 1..j : IsReset(clog[w])
          \/ \A i \in 1..j : Deduplicated(h[j].dedup, clog[i].idem)

ResetAhead(n) == \E w \in (applied[n] + 1)..Len(clog) : IsReset(clog[w])

(* n is at h[j]: the commands up to j that it is given again do nothing. *)
IsAt(n, h, j) ==
    /\ eng[n] = h[j]
    /\ \A i \in (applied[n] + 1)..j : ~IsReset(clog[i]) /\ Deduplicated(h[j].dedup, clog[i].idem)

OnTrack(n, h) == ResetAhead(n) \/ \E j \in applied[n]..Len(clog) : IsAt(n, h, j)

(* Without resets outcomes are never forgotten, and the answers are the outcomes. *)
Stable == setting.ops \cap {"wipe", "load"} = {}
Outcomes(h) ==
    Stable =>
       /\ \A j \in 0..Len(clog), i \in IdemKeys :
             h[j].dedup[i] # 0 => h[Len(clog)].dedup[i] = h[j].dedup[i]
       /\ \A a \in answers : a.pos # 0 /\ h[Len(clog)].dedup[a.idem] = a.pos

Tracks(h) == History(h) /\ Remembers(h) /\ Outcomes(h) /\ \A n \in Nodes : OnTrack(n, h)

AgreeInv == Sound => \E h \in [0..Len(clog) -> Engines] : Tracks(h)

LEMMA AgreeInit == Init => AgreeInv
<1> SUFFICES ASSUME Init PROVE \E h \in [0..Len(clog) -> Engines] : Tracks(h)
  BY Zenon DEF AgreeInv
<1> DEFINE h == [i \in 0..0 |-> NewEngine]
<1>1. Len(clog) = 0
  BY EmptySeq, Zenon DEF Init
<1>2. h \in [0..Len(clog) -> Engines] /\ h[0] = NewEngine
  BY <1>1, Empties
<1> HIDE DEF h
<1>3. History(h) /\ Remembers(h)
  BY <1>1, <1>2 DEF History, Remembers
<1>4. Outcomes(h)
  BY <1>1 DEF Outcomes, Init
<1>5. \A n \in Nodes : IsAt(n, h, 0) /\ applied[n] = 0
  BY <1>2 DEF IsAt, Init
<1>6. \A n \in Nodes : OnTrack(n, h)
  BY <1>1, <1>5 DEF OnTrack
<1> QED BY <1>2, <1>3, <1>4, <1>6, Zenon DEF Tracks

(* What a command that is not a reset does to what is remembered. *)
LEMMA StepRemembers ==
  ASSUME NEW t \in Nat, NEW e \in Engines, NEW cmd \in Commands, ~IsReset(cmd)
  PROVE  /\ \A i \in IdemKeys : e.dedup[i] # 0 => Step(t, e, cmd).dedup[i] = e.dedup[i]
         /\ \A i : Deduplicated(e.dedup, i) /\ i \in IdemKeys \cup {NoIdem}
                     => Deduplicated(Step(t, e, cmd).dedup, i)
         /\ cmd.op # "cas" /\ cmd.idem # NoIdem => Deduplicated(Step(t, e, cmd).dedup, cmd.idem)
<1>0. cmd.idem \in IdemKeys \cup {NoIdem} /\ e.last \in Nat
  BY Zenon DEF Commands, Command, Engines, EngineStates
<1>1. CASE Step(t, e, cmd) = e
  <2>1. cmd.op # "cas" /\ ~Deduplicated(e.dedup, cmd.idem) => e = CommitRecord(e, RecordOf(cmd))
    BY <1>1, StepEffect, Zenon
  <2>2. e # CommitRecord(e, RecordOf(cmd))
    <3>1. CommitRecord(e, RecordOf(cmd)).last = e.last + 1
      BY RecordType, CommitType, Zenon
    <3> QED BY <1>0, <3>1
  <2> QED BY <1>1, <2>1, <2>2, Zenon
<1>2. CASE ~Deduplicated(e.dedup, cmd.idem) /\ Step(t, e, cmd) = CommitRecord(e, RecordOf(cmd))
  <2>1. \A i \in IdemKeys : CommitRecord(e, RecordOf(cmd)).dedup[i] =
                               IF cmd.idem = i THEN e.last + 1 ELSE e.dedup[i]
    BY RecordType, CommitType
  <2>2. \A i \in IdemKeys : e.dedup[i] # 0 => Step(t, e, cmd).dedup[i] = e.dedup[i]
    BY <1>2, <2>1, NoIdemAssumption, Zenon DEF Deduplicated
  <2>3. cmd.idem # NoIdem => Step(t, e, cmd).dedup[cmd.idem] = e.last + 1
    BY <1>0, <1>2, <2>1, Zenon
  <2> QED BY <1>0, <2>2, <2>3 DEF Deduplicated
<1> QED BY <1>1, <1>2, StepEffect, Zenon

(* The history with one command more. *)
LEMMA LongerHistory ==
  ASSUME TypeInv, NEW h \in [0..Len(clog) -> Engines], History(h), NEW cmd \in Commands,
         clog' = Append(clog, cmd), now' = now
  PROVE  \E g \in [0..Len(clog') -> Engines] :
            /\ g[Len(clog')] = Step(now, h[Len(clog)], cmd)
            /\ \A i \in 0..Len(clog) : g[i] = h[i]
            /\ History(g)'
<1> DEFINE L == Len(clog)
           g == [i \in 0..(L + 1) |-> IF i = L + 1 THEN Step(now, h[L], cmd) ELSE h[i]]
<1>0. /\ L \in Nat /\ Len(clog') = L + 1 /\ now \in Nat
      /\ \A i \in 1..L : clog'[i] = clog[i]
      /\ clog'[L + 1] = cmd
  BY LongerLog, TypeParts, Zenon DEF LogTypes
<1>1. h[L] \in Engines
  BY <1>0
<1>2. Step(now, h[L], cmd) \in Engines
  BY <1>0, <1>1, StepEffect, Zenon
<1>3. /\ g \in [0..(L + 1) -> Engines] /\ g[L + 1] = Step(now, h[L], cmd)
      /\ \A i \in 0..L : g[i] = h[i]
  BY <1>0, <1>2
<1>4. g[0] = NewEngine
  BY <1>0, <1>3 DEF History
<1> HIDE DEF g
<1>5. ASSUME NEW i \in 1..(L + 1) PROVE g[i] = Step(now, g[i - 1], clog'[i])
  <2>1. CASE i = L + 1
    <3>1. i - 1 = L
      BY <1>0, <2>1
    <3> QED BY <1>0, <1>3, <2>1, <3>1
  <2>2. CASE i \in 1..L
    <3>1. g[i] = h[i] /\ g[i - 1] = h[i - 1] /\ clog'[i] = clog[i]
      BY <1>0, <1>3, <2>2, SMTT(30)
    <3> QED BY <2>2, <3>1, Zenon DEF History
  <2> QED BY <1>0, <2>1, <2>2
<1>6. PICK f \in [0..Len(clog') -> Engines] : f = g
  BY <1>0, <1>3, Zenon
<1>7. \A i \in 1..Len(clog') : f[i] = Step(now', f[i - 1], clog'[i])
  BY <1>0, <1>5, <1>6, Zenon
<1>8. History(f)'
  BY <1>4, <1>6, <1>7, Zenon DEF History
<1> QED BY <1>0, <1>3, <1>6, <1>8, Zenon

(* A command is committed. *)
LEMMA ProposeTracks ==
  ASSUME TypeInv, Sound, NEW h \in [0..Len(clog) -> Engines], Tracks(h),
         NEW n \in Nodes, NEW cmd \in Commands, Usual(cmd), Propose(n, cmd)
  PROVE  \E g \in [0..Len(clog') -> Engines] : Tracks(g)'
<1>0. /\ UNCHANGED <<setting, now, applied, eng, answers>> /\ clog' = Append(clog, cmd)
      /\ Len(clog) \in Nat /\ now \in Nat
      /\ NodeTypes /\ LogTypes /\ HistoryTypes
  BY TypeParts, Zenon DEF Propose, LogTypes
<1>1. /\ Len(clog') = Len(clog) + 1
      /\ \A i \in 1..Len(clog) : clog'[i] = clog[i]
      /\ clog'[Len(clog) + 1] = cmd
  BY <1>0, LongerLog, Zenon
<1>2. PICK g \in [0..Len(clog') -> Engines] :
            /\ g[Len(clog')] = Step(now, h[Len(clog)], cmd)
            /\ \A i \in 0..Len(clog) : g[i] = h[i]
            /\ History(g)'
  BY <1>0, LongerHistory, Zenon DEF Tracks
<1>3. h[Len(clog)] \in Engines
  BY <1>0
<1>4. ~IsReset(cmd) =>
        /\ \A i \in IdemKeys : h[Len(clog)].dedup[i] # 0 => g[Len(clog')].dedup[i] = h[Len(clog)].dedup[i]
        /\ \A i \in IdemKeys \cup {NoIdem} :
              Deduplicated(h[Len(clog)].dedup, i) => Deduplicated(g[Len(clog')].dedup, i)
        /\ cmd.op # "cas" /\ cmd.idem # NoIdem => Deduplicated(g[Len(clog')].dedup, cmd.idem)
  BY <1>0, <1>2, <1>3, StepRemembers
<1>5. Remembers(g)'
  <2> SUFFICES ASSUME "restart" \in setting.faults, NEW j \in 0..Len(clog'),
                      ~\E w \in 1..j : IsReset(clog'[w]), NEW i \in 1..j
               PROVE  Deduplicated(g[j].dedup, clog'[i].idem)
    BY <1>0, Zenon DEF Remembers
  <2>1. CASE j \in 0..Len(clog)
    <3>1. /\ g[j] = h[j] /\ \A w \in 1..j : clog'[w] = clog[w]
      BY <1>0, <1>1, <1>2, <2>1
    <3>2. ~\E w \in 1..j : IsReset(clog[w])
      BY <3>1, Zenon
    <3>3. Deduplicated(h[j].dedup, clog[i].idem)
      BY <2>1, <3>2, Zenon DEF Tracks, Remembers
    <3> QED BY <3>1, <3>3, Zenon
  <2>2. CASE j = Len(clog')
    <3>1. ~IsReset(cmd)
      BY <1>0, <1>1, <2>2
    <3>2. CASE i = Len(clog')
      <4>1. cmd.op # "cas" /\ cmd.idem # NoIdem
        BY <3>1, Zenon DEF Sound, Deterministic, Usual
      <4> QED BY <1>1, <1>4, <2>2, <3>1, <3>2, <4>1, Zenon
    <3>3. CASE i \in 1..Len(clog)
      <4>1. \A w \in 1..Len(clog) : w \in 1..j /\ clog'[w] = clog[w]
        BY <1>0, <1>1, <2>2
      <4>2. ~\E w \in 1..Len(clog) : IsReset(clog[w])
        BY <4>1, Zenon
      <4>3. Len(clog) \in 0..Len(clog)
        BY <1>0
      <4>4. Deduplicated(h[Len(clog)].dedup, clog[i].idem)
        BY <3>3, <4>2, <4>3, Zenon DEF Tracks, Remembers
      <4>5. clog[i] \in Commands
        BY <1>0, <3>3, ElementOfSeq, Zenon DEF LogTypes
      <4>6. clog[i].idem \in IdemKeys \cup {NoIdem}
        BY <4>5, Zenon DEF Commands, Command
      <4> QED BY <1>4, <2>2, <3>1, <3>3, <4>1, <4>4, <4>6, Zenon
    <3> QED BY <1>0, <1>1, <2>2, <3>2, <3>3
  <2> QED BY <1>0, <1>1, <2>1, <2>2
<1>6. Outcomes(g)'
  <2> SUFFICES ASSUME Stable
               PROVE  /\ \A j \in 0..Len(clog'), i \in IdemKeys :
                            g[j].dedup[i] # 0 => g[Len(clog')].dedup[i] = g[j].dedup[i]
                      /\ \A a \in answers : a.pos # 0 /\ g[Len(clog')].dedup[a.idem] = a.pos
    BY <1>0, Zenon DEF Outcomes, Stable
  <2>1. ~IsReset(cmd)
    BY Zenon DEF Usual, Stable, IsReset
  <2>2. ASSUME NEW j \in 0..Len(clog'), NEW i \in IdemKeys, g[j].dedup[i] # 0
        PROVE  g[Len(clog')].dedup[i] = g[j].dedup[i]
    <3>1. CASE j = Len(clog')
      BY <3>1, Zenon
    <3>2. CASE j \in 0..Len(clog)
      <4>1. h[j].dedup[i] # 0 /\ g[j] = h[j]
        BY <1>2, <2>2, <3>2, Zenon
      <4>2. h[Len(clog)].dedup[i] = h[j].dedup[i]
        BY <3>2, <4>1, Zenon DEF Tracks, Outcomes
      <4> QED BY <1>4, <2>1, <4>1, <4>2, Zenon
    <3> QED BY <1>0, <1>1, <3>1, <3>2
  <2>3. ASSUME NEW a \in answers PROVE a.pos # 0 /\ g[Len(clog')].dedup[a.idem] = a.pos
    <3>1. a.pos # 0 /\ h[Len(clog)].dedup[a.idem] = a.pos /\ a.idem \in IdemKeys
      BY <1>0, Zenon DEF Tracks, Outcomes, HistoryTypes
    <3> QED BY <1>4, <2>1, <3>1, Zenon
  <2> QED BY <2>2, <2>3, Zenon
<1>7. ASSUME NEW m \in Nodes PROVE OnTrack(m, g)'
  <2>0. applied[m] \in 0..Len(clog)
    BY <1>0, Zenon DEF NodeTypes
  <2>1. CASE ResetAhead(m)
    <3>1. PICK w \in (applied[m] + 1)..Len(clog) : IsReset(clog[w])
      BY <2>1, Zenon DEF ResetAhead
    <3>2. w \in (applied[m] + 1)..Len(clog') /\ clog'[w] = clog[w]
      BY <1>0, <1>1, <2>0, <3>1
    <3> QED BY <1>0, <3>1, <3>2, Zenon DEF OnTrack, ResetAhead
  <2>2. ASSUME NEW j \in applied[m]..Len(clog), IsAt(m, h, j)
        PROVE  OnTrack(m, g)'
    <3>1. j \in applied[m]..Len(clog') /\ g[j] = h[j] /\ \A i \in (applied[m] + 1)..j : clog'[i] = clog[i]
      BY <1>0, <1>1, <1>2, <2>0, <2>2
    <3>2. IsAt(m, g, j)'
      BY <1>0, <2>2, <3>1, Zenon DEF IsAt
    <3> QED BY <1>0, <3>1, <3>2, Zenon DEF OnTrack
  <2> QED BY <2>1, <2>2, Zenon DEF Tracks, OnTrack
<1> QED BY <1>2, <1>5, <1>6, <1>7, Zenon DEF Tracks

(* Without CompareAndSet the history does not depend on the clock. *)
LEMMA HistoryKept ==
  ASSUME TypeInv, NEW h \in [0..Len(clog) -> Engines], History(h), UNCHANGED <<setting, clog>>,
         now' = now \/ "cas" \notin setting.ops
  PROVE  History(h)'
<1>0. /\ LogTypes /\ Len(clog) \in Nat
  BY TypeParts, Zenon
<1>1. CASE now' = now
  BY <1>1, Zenon DEF History
<1>2. CASE "cas" \notin setting.ops
  <2>1. ASSUME NEW i \in 1..Len(clog) PROVE h[i] = Step(now', h[i - 1], clog[i])
    <3>1. clog[i] \in Commands /\ clog[i].op # "cas" /\ h[i - 1] \in Engines
      BY <1>0, <1>2, ElementOfSeq DEF LogTypes, Usual
    <3>2. PICK e \in Engines, cmd \in Commands : e = h[i - 1] /\ cmd = clog[i]
      BY <3>1, Zenon
    <3>3. Step(now', e, cmd) = Step(now, e, cmd)
      <4>1. now \in Nat /\ cmd.op # "cas"
        BY <1>0, <3>1, <3>2, Zenon DEF LogTypes
      <4> QED BY <4>1, StepEffect
    <3> QED BY <3>2, <3>3, Zenon DEF History
  <2> QED BY <2>1, Zenon DEF History
<1> QED BY <1>1, <1>2, Zenon

(* The parts of Tracks that are about the log. *)
LEMMA LogTracks ==
  ASSUME TypeInv, Sound, NEW h \in [0..Len(clog) -> Engines], Tracks(h),
         UNCHANGED <<setting, clog>>, now' = now \/ Tick
  PROVE  History(h)' /\ Remembers(h)'
<1>1. now' = now \/ "cas" \notin setting.ops
  BY Zenon DEF Tick, Sound, Deterministic
<1> QED BY <1>1, HistoryKept, Zenon DEF Tracks, Remembers

(* A replica applies its next command: it is one it repeats, or the next of the history. *)
LEMMA ApplyOnTrack ==
  ASSUME TypeInv, NEW h \in [0..Len(clog) -> Engines], History(h), NEW n \in Nodes, OnTrack(n, h),
         clog' = clog, applied'[n] = applied[n] + 1, applied[n] + 1 \in 1..Len(clog),
         clog[applied[n] + 1] \in Commands, eng'[n] = Step(now, eng[n], clog[applied[n] + 1])
  PROVE  OnTrack(n, h)'
<1> DEFINE a == applied[n]
           cmd == clog[a + 1]
<1>0. /\ a \in Nat /\ Len(clog) \in Nat /\ a + 1 \in 1..Len(clog) /\ now \in Nat /\ cmd \in Commands
      /\ eng[n] \in Engines /\ h[a] \in Engines /\ eng'[n] = Step(now, eng[n], cmd)
  <2>1. a \in 0..Len(clog) /\ eng[n] \in Engines /\ now \in Nat /\ Len(clog) \in Nat
    BY TypeParts, Zenon DEF NodeTypes, LogTypes
  <2> QED BY <2>1
<1>1. h[a + 1] = Step(now, h[a], cmd)
  <2>1. h[a + 1] = Step(now, h[(a + 1) - 1], clog[a + 1])
    BY <1>0, Zenon DEF History
  <2>2. (a + 1) - 1 = a
    BY <1>0
  <2> QED BY <2>1, <2>2, Zenon
<1>2. applied'[n] = a + 1
  BY Zenon
<1> HIDE DEF a, cmd
<1>3. ASSUME eng'[n] = h[a + 1] PROVE OnTrack(n, h)'
  <2>1. PICK k \in Nat : k = a + 1
    BY <1>0
  <2>2. /\ \A i \in (k + 1)..k : FALSE
        /\ k \in applied'[n]..Len(clog')
    BY <1>0, <1>2, <2>1
  <2>3. IsAt(n, h, k)'
    BY <1>2, <1>3, <2>1, <2>2, Zenon DEF IsAt
  <2> QED BY <2>2, <2>3, Zenon DEF OnTrack
<1>4. CASE IsReset(cmd)
  <2>1. Step(now, eng[n], cmd) = Step(now, h[a], cmd)
    BY <1>0, <1>4, StepEffect
  <2> QED BY <1>0, <1>1, <1>3, <2>1, Zenon
<1>5. CASE ~IsReset(cmd) /\ ResetAhead(n)
  <2>1. PICK w \in (a + 1)..Len(clog) : IsReset(clog[w])
    BY <1>5, Zenon DEF ResetAhead, a
  <2>2. w # a + 1
    BY <1>5, <2>1, Zenon DEF cmd
  <2>3. w \in (a + 1 + 1)..Len(clog)
    BY <1>0, <2>1, <2>2
  <2> QED BY <1>2, <2>1, <2>3, Zenon DEF OnTrack, ResetAhead
<1>6. ASSUME ~IsReset(cmd), NEW j \in a..Len(clog), IsAt(n, h, j)
      PROVE  OnTrack(n, h)'
  <2>0. eng[n] = h[j] /\ \A i \in (a + 1)..j : ~IsReset(clog[i]) /\ Deduplicated(h[j].dedup, clog[i].idem)
    BY <1>6, Zenon DEF IsAt, a
  <2>1. CASE j = a
    BY <1>0, <1>1, <1>3, <2>0, <2>1, Zenon
  <2>2. CASE j # a
    <3>1. a + 1 \in (a + 1)..j /\ j \in (a + 1)..Len(clog)
      BY <1>0, <1>6, <2>2
    <3>2. Deduplicated(eng[n].dedup, cmd.idem)
      BY <2>0, <3>1, Zenon DEF cmd
    <3>3. eng'[n] = eng[n]
      BY <1>0, <1>6, <3>2, StepEffect, Zenon
    <3>4. \A i \in (a + 1 + 1)..j : i \in (a + 1)..j
      BY <1>0, <3>1
    <3>5. IsAt(n, h, j)'
      BY <1>2, <2>0, <3>3, <3>4, Zenon DEF IsAt
    <3> QED BY <1>2, <3>1, <3>5, Zenon DEF OnTrack
  <2> QED BY <2>1, <2>2, Zenon
<1>7. ResetAhead(n) \/ \E j \in a..Len(clog) : IsAt(n, h, j)
  BY Zenon DEF OnTrack, a
<1> QED BY <1>4, <1>5, <1>6, <1>7, Zenon

(* What the caller is told is what the history remembers. *)
LEMMA ApplyOutcomes ==
  ASSUME TypeInv, NEW h \in [0..Len(clog) -> Engines], Outcomes(h), NEW n \in Nodes, Apply(n),
         OnTrack(n, h)', applied'[n] \in 0..Len(clog)
  PROVE  Outcomes(h)'
<1> DEFINE cmd == clog[applied[n] + 1]
<1>0. /\ UNCHANGED <<setting, clog>> /\ answers' = answers \cup Answer(n, cmd)
      /\ eng'[n] = ApplyCommand(eng[n], cmd) /\ LogTypes /\ Len(clog) \in Nat
  BY TypeParts, Zenon DEF Apply
<1> SUFFICES ASSUME Stable
             PROVE  \A a \in answers' : a.pos # 0 /\ h[Len(clog)].dedup[a.idem] = a.pos
  BY <1>0, Zenon DEF Outcomes, Stable
<1>1. ASSUME NEW a \in Answer(n, cmd)
      PROVE  a.pos # 0 /\ eng'[n].dedup[a.idem] = a.pos /\ a.idem \in IdemKeys
  <2>1. a = [idem |-> cmd.idem, pos |-> eng'[n].dedup[cmd.idem]] /\ eng'[n].dedup[cmd.idem] # 0
        /\ cmd.idem # NoIdem
    BY <1>0, <1>1, Zenon DEF Answer
  <2>2. a.idem = cmd.idem /\ a.pos = eng'[n].dedup[cmd.idem]
    BY <2>1, Zenon
  <2>3. cmd \in Commands
    <3>1. applied[n] + 1 \in 1..Len(clog)
      BY TypeParts DEF Apply, Given, NodeTypes
    <3> QED BY <1>0, <3>1, ElementOfSeq, Zenon DEF LogTypes
  <2>4. cmd.idem \in IdemKeys
    BY <2>1, <2>3, Zenon DEF Commands, Command
  <2> QED BY <2>1, <2>2, <2>4, Zenon
<1>2. PICK j \in applied'[n]..Len(clog) : eng'[n] = h[j]
  <2>1. ~ResetAhead(n)'
    <3>1. \A w \in 1..Len(clog) : ~IsReset(clog[w])
      BY <1>0, Zenon DEF LogTypes, Usual, Stable, IsReset
    <3>2. \A w \in (applied'[n] + 1)..Len(clog') : w \in 1..Len(clog)
      BY <1>0
    <3> QED BY <1>0, <3>1, <3>2, Zenon DEF ResetAhead
  <2> QED BY <1>0, <2>1, Zenon DEF OnTrack, IsAt
<1>3. j \in 0..Len(clog)
  BY <1>0, <1>2
<1> QED BY <1>0, <1>1, <1>2, <1>3 DEF Outcomes

(* A node that starts again repeats what it remembers, or has a reset ahead. *)
LEMMA RestartOnTrack ==
  ASSUME TypeInv, Sound, NEW h \in [0..Len(clog) -> Engines], Tracks(h), NEW n \in Nodes, Restart(n)
  PROVE  OnTrack(n, h)'
<1>0. /\ clog' = clog /\ eng' = eng /\ applied'[n] = 0 /\ applied[n] \in 0..Len(clog)
      /\ Len(clog) \in Nat /\ "restart" \in setting.faults
  <2>1. eng' = eng
    BY SoundDisks, Zenon DEF Sound, Deterministic
  <2> QED BY <2>1, TypeParts, Zenon DEF Restart, NodeTypes
<1>1. CASE ResetAhead(n)
  <2>1. PICK w \in (applied[n] + 1)..Len(clog) : IsReset(clog[w])
    BY <1>1, Zenon DEF ResetAhead
  <2>2. w \in (0 + 1)..Len(clog)
    BY <1>0, <2>1
  <2> QED BY <1>0, <2>1, <2>2, Zenon DEF OnTrack, ResetAhead
<1>2. ASSUME NEW j \in applied[n]..Len(clog), IsAt(n, h, j)
      PROVE  OnTrack(n, h)'
  <2>0. j \in 0..Len(clog)
    BY <1>0, <1>2
  <2>1. CASE \E w \in 1..j : IsReset(clog[w])
    <3>1. PICK w \in 1..j : IsReset(clog[w])
      BY <2>1, Zenon
    <3>2. w \in (0 + 1)..Len(clog)
      BY <1>0, <2>0, <3>1
    <3> QED BY <1>0, <3>1, <3>2, Zenon DEF OnTrack, ResetAhead
  <2>2. CASE ~\E w \in 1..j : IsReset(clog[w])
    <3>1. \A i \in 1..j : Deduplicated(h[j].dedup, clog[i].idem)
      BY <1>0, <2>0, <2>2, Zenon DEF Tracks, Remembers
    <3>2. \A i \in (0 + 1)..j : ~IsReset(clog[i]) /\ Deduplicated(h[j].dedup, clog[i].idem)
      BY <2>2, <3>1
    <3>3. IsAt(n, h, j)'
      BY <1>0, <1>2, <3>2, Zenon DEF IsAt
    <3>4. j \in applied'[n]..Len(clog')
      BY <1>0, <2>0, Zenon
    <3> QED BY <3>3, <3>4, Zenon DEF OnTrack
  <2> QED BY <2>1, <2>2, Zenon
<1> QED BY <1>1, <1>2, Zenon DEF Tracks, OnTrack

(* A replica that takes no part in the step. *)
LEMMA OnTrackFrame ==
  ASSUME NEW h, NEW n \in Nodes, OnTrack(n, h), clog' = clog, applied'[n] = applied[n],
         eng'[n] = eng[n]
  PROVE  OnTrack(n, h)'
  BY Zenon DEF OnTrack, ResetAhead, IsAt

(* What can happen while replicas are sound. *)
LEMMA SoundSteps ==
  ASSUME TypeInv, [Next]_vars, Sound
  PROVE  /\ setting' = setting
         /\ \/ \E n \in Nodes, cmd \in Commands : Usual(cmd) /\ Propose(n, cmd)
            \/ Tick
            \/ \E n \in Nodes : Apply(n) \/ Restart(n)
            \/ UNCHANGED <<now, clog, applied, eng, answers>>
<1>1. ASSUME NEW n \in Nodes, Proposes(n)
      PROVE  /\ setting' = setting
             /\ \E cmd \in Commands : Usual(cmd) /\ Propose(n, cmd)
  BY <1>1, ProposedCommand, Zenon DEF Propose
<1>2. ASSUME NEW n \in Nodes, ApplyError(n) \/ RestoreError(n) \/ RespSet(n) \/ RespDel(n)
      PROVE  FALSE
  BY <1>2, SoundDisks, Zenon DEF Sound, Deterministic
<1>3. ASSUME NEW n \in Nodes, Restore(n)
      PROVE  FALSE
  <2>1. snapshot.index = 0 /\ applied[n] \in Nat
    BY TypeParts DEF FileTypes, NodeTypes, Sound
  <2> QED BY <1>3, <2>1 DEF Restore, Behind
<1>4. ASSUME NEW n \in Nodes,
             \/ NewLeader(n) \/ ProposeLost(n) \/ CreateBackup(n) \/ Snapshot(n) \/ Membership(n)
      PROVE  UNCHANGED <<setting, now, clog, applied, eng, answers>>
  BY <1>4, Zenon DEF NewLeader, ProposeLost, CreateBackup, Snapshot, Membership, AddNode,
     RemoveNode, ListNodes, ListConfiguration, ListLeader, LearnConfiguration
<1>5. (Tick \/ \E n \in Nodes : Apply(n) \/ Restart(n)) => setting' = setting
  BY Zenon DEF Tick, Apply, Restart
<1>6. UNCHANGED vars => UNCHANGED <<setting, now, clog, applied, eng, answers>>
  BY Zenon DEF vars
<1> QED BY <1>1, <1>2, <1>3, <1>4, <1>5, <1>6, Zenon DEF Next, Proposes, Membership

LEMMA AgreeStep ==
  ASSUME TypeInv, TypeInv', [Next]_vars, AgreeInv
  PROVE  AgreeInv'
<1>1. setting' = setting
  BY SettingKept, Zenon
<1>2. CASE ~Sound
  BY <1>1, <1>2, Zenon DEF AgreeInv, Sound, Deterministic
<1>3. CASE Sound
  <2>0. NodeTypes /\ eng \in [Nodes -> Engines] /\ Len(clog) \in Nat
    BY TypeParts, Zenon
  <2>1. PICK h \in [0..Len(clog) -> Engines] : Tracks(h)
    BY <1>3, Zenon DEF AgreeInv
  <2>2. ASSUME NEW n \in Nodes, NEW cmd \in Commands, Usual(cmd), Propose(n, cmd)
        PROVE  AgreeInv'
    <3>1. \E g \in [0..Len(clog') -> Engines] : Tracks(g)'
      BY <1>3, <2>1, <2>2, ProposeTracks, Zenon
    <3> QED BY <3>1, Zenon DEF AgreeInv
  <2>3. ASSUME clog' = clog, Tracks(h)' PROVE AgreeInv'
    BY <2>1, <2>3, Zenon DEF AgreeInv
  <2>4. ASSUME Tick \/ UNCHANGED <<setting, now, clog, applied, eng, answers>>
        PROVE  AgreeInv'
    <3>1. UNCHANGED <<setting, clog, applied, eng, answers>> /\ (now' = now \/ Tick)
      BY <2>4, Zenon DEF Tick
    <3>2. History(h)' /\ Remembers(h)'
      BY <1>3, <2>1, <3>1, LogTracks, Zenon
    <3>3. Outcomes(h)'
      BY <2>1, <3>1, Zenon DEF Tracks, Outcomes, Stable
    <3>4. \A n \in Nodes : OnTrack(n, h)'
      BY <2>1, <3>1, OnTrackFrame, Zenon DEF Tracks
    <3> QED BY <2>3, <3>1, <3>2, <3>3, <3>4, Zenon DEF Tracks
  <2>5. ASSUME NEW n \in Nodes, Apply(n)
        PROVE  AgreeInv'
    <3>1. /\ UNCHANGED <<setting, clog, now>> /\ applied' = [applied EXCEPT ![n] = @ + 1]
          /\ applied[n] < Len(clog)
          /\ eng' = [eng EXCEPT ![n] = ApplyCommand(@, clog[applied[n] + 1])]
      BY <2>5, Zenon DEF Apply, Given
    <3>2. History(h)' /\ Remembers(h)'
      BY <1>3, <2>1, <3>1, LogTracks, Zenon
    <3>3. /\ applied'[n] = applied[n] + 1 /\ applied[n] + 1 \in 1..Len(clog)
          /\ eng'[n] = ApplyCommand(eng[n], clog[applied[n] + 1])
      BY <2>0, <3>1 DEF NodeTypes
    <3>4. clog[applied[n] + 1] \in Commands
      BY <3>3, ElementOfSeq, TypeParts, Zenon DEF LogTypes
    <3>5. eng'[n] = Step(now, eng[n], clog[applied[n] + 1])
      BY <3>3, ApplyIsStep, Zenon
    <3>6. OnTrack(n, h)'
      BY <2>1, <3>1, <3>3, <3>4, <3>5, ApplyOnTrack, Zenon DEF Tracks
    <3>7. ASSUME NEW m \in Nodes PROVE OnTrack(m, h)'
      <4>1. CASE m = n
        BY <3>6, <4>1, Zenon
      <4>2. CASE m # n
        BY <2>0, <2>1, <3>1, <4>2, OnTrackFrame, Zenon DEF Tracks, NodeTypes
      <4> QED BY <4>1, <4>2, Zenon
    <3>8. applied'[n] \in 0..Len(clog)
      BY <2>0, <3>3
    <3>9. Outcomes(h)'
      BY <2>1, <2>5, <3>6, <3>8, ApplyOutcomes, Zenon DEF Tracks
    <3> QED BY <2>3, <3>1, <3>2, <3>7, <3>9, Zenon DEF Tracks
  <2>6. ASSUME NEW n \in Nodes, Restart(n)
        PROVE  AgreeInv'
    <3>1. UNCHANGED <<setting, clog, now, eng, answers>> /\ applied' = [applied EXCEPT ![n] = 0]
      BY <1>3, <2>6, SoundDisks, Zenon DEF Restart, Sound, Deterministic
    <3>2. History(h)' /\ Remembers(h)'
      BY <1>3, <2>1, <3>1, LogTracks, Zenon
    <3>3. Outcomes(h)'
      BY <2>1, <3>1, Zenon DEF Tracks, Outcomes, Stable
    <3>4. OnTrack(n, h)'
      BY <1>3, <2>1, <2>6, RestartOnTrack, Zenon
    <3>5. ASSUME NEW m \in Nodes PROVE OnTrack(m, h)'
      <4>1. CASE m = n
        BY <3>4, <4>1
      <4>2. CASE m # n
        BY <2>0, <2>1, <3>1, <4>2, OnTrackFrame, Zenon DEF Tracks, NodeTypes
      <4> QED BY <4>1, <4>2
    <3> QED BY <2>3, <3>1, <3>2, <3>3, <3>5, Zenon DEF Tracks
  <2> QED BY <1>3, <2>2, <2>4, <2>5, <2>6, SoundSteps, Zenon
<1> QED BY <1>2, <1>3, Zenon

(* Replicas that have applied the same commands are in the same state, through lost
   answers, leader changes, restarts that repeat the log, wipes, loads and expiries. *)
THEOREM CaughtUpReplicasAgree == Spec => []ReplicasAgree
<1>1. Init => TypeInv /\ AgreeInv
  BY TypeInit, AgreeInit, Zenon
<1>2. TypeInv /\ AgreeInv /\ [Next]_vars => (TypeInv /\ AgreeInv)'
  BY TypeStep, AgreeStep, Zenon
<1>3. TypeInv /\ AgreeInv => ReplicasAgree
  <2> SUFFICES ASSUME TypeInv, AgreeInv, Sound PROVE CaughtUpAgree
    BY Zenon DEF ReplicasAgree, Sound
  <2>0. Len(clog) \in Nat
    BY TypeParts, Zenon
  <2>1. PICK h \in [0..Len(clog) -> Engines] : Tracks(h)
    BY Zenon DEF AgreeInv
  <2>2. ASSUME NEW n \in Nodes, CaughtUp(n) PROVE eng[n] = h[Len(clog)]
    <3>1. applied[n] = Len(clog)
      BY <2>2, Zenon DEF CaughtUp
    <3>2. ~ResetAhead(n)
      BY <2>0, <3>1 DEF ResetAhead
    <3>3. PICK j \in applied[n]..Len(clog) : IsAt(n, h, j)
      BY <2>1, <3>2, Zenon DEF Tracks, OnTrack
    <3>4. j = Len(clog)
      BY <2>0, <3>1, <3>3
    <3> QED BY <3>3, <3>4, Zenon DEF IsAt
  <2> QED BY <2>2, Zenon DEF CaughtUpAgree
<1> QED BY <1>1, <1>2, <1>3, PTL DEF Spec

(* Every answer for an idempotency key gives the position of the first. *)
THEOREM RetriesGetTheFirstAnswer == Spec => []AnswersAgree
<1>1. Init => TypeInv /\ AgreeInv
  BY TypeInit, AgreeInit
<1>2. TypeInv /\ AgreeInv /\ [Next]_vars => (TypeInv /\ AgreeInv)'
  BY TypeStep, AgreeStep
<1>3. TypeInv /\ AgreeInv => AnswersAgree
  <2> SUFFICES ASSUME AgreeInv, Sound, Stable, NEW a \in answers, NEW b \in answers, a.idem = b.idem
               PROVE  a.pos = b.pos
    BY Zenon DEF AnswersAgree, Sound, Stable
  <2>1. PICK h \in [0..Len(clog) -> Engines] : Tracks(h)
    BY Zenon DEF AgreeInv
  <2> QED BY <2>1, Zenon DEF Tracks, Outcomes
<1> QED BY <1>1, <1>2, <1>3, PTL DEF Spec

-----------------------------------------------------------------------------
(* Agreement through snapshots.  A replica started from one has other versions
   than its peers and lacks what had expired: what is the same is what is live. *)

LiveAt(t, ent) == ent.version > 0 /\ ~Expired(ent, t)
SameEntry(t, x, y) ==
    /\ LiveAt(t, x) <=> LiveAt(t, y)
    /\ LiveAt(t, x) => x.val = y.val /\ x.exp = y.exp
Same(t, e, f) == \A k \in Keys : SameEntry(t, e.index[k], f.index[k])

Plain == Deterministic /\ setting.idems \subseteq {NoIdem} /\ "cas" \notin setting.ops

(* A node that starts again is at its old state until it is given the first command. *)
Shown(n, h) ==
    \/ applied[n] = 0 /\ Len(clog) > 0 /\ "restart" \in setting.faults
    \/ Same(now, eng[n], h[applied[n]])
Shows(h) ==
    /\ History(h)
    /\ \A n \in Nodes : Shown(n, h)
    /\ snapshot.index > 0 => Same(now, Loaded(snapshot.entries), h[snapshot.index])

ShowInv == Plain => \E h \in [0..Len(clog) -> Engines] : Shows(h)

LEMMA SameRelation ==
  ASSUME NEW t, NEW e, NEW f, NEW g
  PROVE  /\ Same(t, e, e)
         /\ Same(t, e, f) => Same(t, f, e)
         /\ Same(t, e, f) /\ Same(t, f, g) => Same(t, e, g)
  BY Zenon DEF Same, SameEntry

(* Time only makes entries expire. *)
LEMMA SameLater ==
  ASSUME NEW t \in Nat, NEW u \in Nat, t <= u, NEW e \in Engines, NEW f \in Engines, Same(t, e, f)
  PROVE  Same(u, e, f)
<1> SUFFICES ASSUME NEW k \in Keys PROVE SameEntry(u, e.index[k], f.index[k])
  BY Zenon DEF Same
<1>1. SameEntry(t, e.index[k], f.index[k]) /\ e.index[k].exp \in Nat /\ f.index[k].exp \in Nat
  BY Zenon DEF Same, Engines, EngineStates, Entry
<1> QED BY <1>1 DEF SameEntry, LiveAt, Expired

LEMMA CommitIndex ==
  ASSUME NEW e \in Engines, NEW r \in LogRecord, NEW k \in Keys
  PROVE  CommitRecord(e, r).index[k] =
            IF k # r.key THEN e.index[k]
            ELSE IF r.kind = "put" THEN [val |-> r.val, version |-> e.last + 1, exp |-> r.exp]
            ELSE Absent
<1>1. e.index \in [Keys -> Entry] /\ r.key \in Keys
  BY Zenon DEF Engines, EngineStates, LogRecord
<1>2. CommitRecord(e, r).index = ReplayIndex(e.index, e.last + 1, r)
  BY Zenon DEF CommitRecord
<1> QED BY <1>1, <1>2, Zenon DEF ReplayIndex

(* The same command makes the same of states that show the same. *)
LEMMA SameStep ==
  ASSUME NEW t \in Nat, NEW e \in Engines, NEW f \in Engines, Same(t, e, f),
         NEW cmd \in Commands, cmd.op # "cas", IsReset(cmd) \/ cmd.idem = NoIdem
  PROVE  Same(t, Step(t, e, cmd), Step(t, f, cmd))
<1>1. CASE IsReset(cmd)
  <2>1. Step(t, e, cmd) = Step(t, f, cmd)
    BY <1>1, StepEffect, Zenon
  <2> QED BY <2>1, SameRelation, Zenon
<1>2. CASE ~IsReset(cmd)
  <2> DEFINE r == RecordOf(cmd)
  <2>1. r \in LogRecord /\ e.last \in Nat /\ f.last \in Nat
    BY <1>2, RecordType, Zenon DEF Engines, EngineStates
  <2>2. Step(t, e, cmd) = CommitRecord(e, r) /\ Step(t, f, cmd) = CommitRecord(f, r)
    BY <1>2, StepEffect, Zenon DEF Deduplicated
  <2> HIDE DEF r
  <2>3. ASSUME NEW k \in Keys
        PROVE  SameEntry(t, CommitRecord(e, r).index[k], CommitRecord(f, r).index[k])
    <3>1. CASE k # r.key
      BY <2>1, <3>1, CommitIndex, Zenon DEF Same
    <3>2. CASE k = r.key /\ r.kind = "put"
      <4> DEFINE x == [val |-> r.val, version |-> e.last + 1, exp |-> r.exp]
                 y == [val |-> r.val, version |-> f.last + 1, exp |-> r.exp]
      <4>1. CommitRecord(e, r).index[k] = x /\ CommitRecord(f, r).index[k] = y
        BY <2>1, <3>2, CommitIndex, Zenon
      <4>2. x.val = y.val /\ x.exp = y.exp /\ x.version > 0 /\ y.version > 0
        BY <2>1
      <4> HIDE DEF x, y
      <4> QED BY <4>1, <4>2, Zenon DEF SameEntry, LiveAt, Expired
    <3>3. CASE k = r.key /\ r.kind # "put"
      <4>1. CommitRecord(e, r).index[k] = Absent /\ CommitRecord(f, r).index[k] = Absent
        BY <2>1, <3>3, CommitIndex, Zenon
      <4> QED BY <4>1, Zenon DEF SameEntry
    <3> QED BY <3>1, <3>2, <3>3, Zenon
  <2> QED BY <2>2, <2>3, ZenonT(40) DEF Same
<1> QED BY <1>1, <1>2, Zenon

(* A replica that is loaded from a snapshot shows what the snapshot was taken of. *)
LEMMA SameLoaded ==
  ASSUME now \in Nat, NEW e \in Engines, NEW s \in EngineSnapshots(e)
  PROVE  Same(now, Loaded(s), e)
<1>0. /\ s \in Seq(SnapshotEntry) /\ Len(s) \in Nat
      /\ \A i \in 1..Len(s) : /\ s[i].key \in Live(e) /\ s[i].val = e.index[s[i].key].val
                              /\ s[i].exp = e.index[s[i].key].exp
      /\ \A k \in Live(e) : \E i \in 1..Len(s) : s[i].key = k
  BY SnapshotType, LenProperties, Zenon
<1> DEFINE first(k) == CHOOSE j \in 1..Len(s) : s[j].key = k
           new == [k \in Keys |-> IF \E i \in 1..Len(s) : s[i].key = k
                     THEN [val |-> s[first(k)].val, version |-> first(k), exp |-> s[first(k)].exp]
                     ELSE Absent]
<1>1. Loaded(s).index = new
  BY Zenon DEF Loaded, NewEngine
<1>2. ASSUME NEW k \in Keys PROVE SameEntry(now, new[k], e.index[k])
  <2>0. k \in Live(e) <=> LiveAt(now, e.index[k])
    BY Zenon DEF Live, LiveAt
  <2>1. CASE k \in Live(e)
    <3>1. /\ first(k) \in 1..Len(s) /\ s[first(k)].key = k
          /\ new[k] = [val |-> s[first(k)].val, version |-> first(k), exp |-> s[first(k)].exp]
      BY <1>0, <2>1, Zenon
    <3> HIDE DEF first, new
    <3>2. new[k].val = e.index[k].val /\ new[k].exp = e.index[k].exp /\ new[k].version > 0
      BY <1>0, <3>1
    <3> QED BY <2>0, <2>1, <3>2, Zenon DEF SameEntry, LiveAt, Expired
  <2>2. CASE k \notin Live(e)
    <3>1. ~\E i \in 1..Len(s) : s[i].key = k
      BY <1>0, <2>2, Zenon
    <3>2. new[k] = Absent
      BY <3>1, Zenon
    <3> HIDE DEF new
    <3>3. ~LiveAt(now, new[k])
      BY <3>2, Empties DEF LiveAt
    <3> QED BY <2>0, <2>2, <3>3, Zenon DEF SameEntry
  <2> QED BY <2>1, <2>2, Zenon
<1> HIDE DEF new
<1> QED BY <1>1, <1>2, Zenon DEF Same

LEMMA ShowInit == Init => ShowInv
<1> SUFFICES ASSUME Init PROVE \E h \in [0..Len(clog) -> Engines] : Shows(h)
  BY DEF ShowInv
<1> DEFINE h == [i \in 0..0 |-> NewEngine]
<1>1. Len(clog) = 0
  BY EmptySeq DEF Init
<1>2. h \in [0..Len(clog) -> Engines] /\ h[0] = NewEngine
  BY <1>1, Empties
<1> HIDE DEF h
<1>3. History(h)
  BY <1>1, <1>2 DEF History
<1>4. \A n \in Nodes : eng[n] = h[applied[n]]
  BY <1>2, Zenon DEF Init
<1>5. \A n \in Nodes : Shown(n, h)
  BY <1>4, SameRelation, Zenon DEF Shown
<1>6. ~(snapshot.index > 0)
  BY DEF Init
<1> QED BY <1>2, <1>3, <1>5, <1>6, Zenon DEF Shows

(* A command is committed. *)
LEMMA ProposeShows ==
  ASSUME TypeInv, NEW h \in [0..Len(clog) -> Engines], Shows(h),
         NEW n \in Nodes, NEW cmd \in Commands, Propose(n, cmd)
  PROVE  \E g \in [0..Len(clog') -> Engines] : Shows(g)'
<1>0. /\ UNCHANGED <<setting, now, applied, eng, snapshot>> /\ clog' = Append(clog, cmd)
      /\ Len(clog) \in Nat /\ NodeTypes /\ FileTypes
  BY TypeParts, Zenon DEF Propose, fileVars
<1>1. Len(clog') = Len(clog) + 1
  BY <1>0, LongerLog, Zenon
<1>2. PICK g \in [0..Len(clog') -> Engines] : (\A i \in 0..Len(clog) : g[i] = h[i]) /\ History(g)'
  BY <1>0, LongerHistory, Zenon DEF Shows
<1>3. ASSUME NEW m \in Nodes PROVE Shown(m, g)'
  <2>1. applied[m] \in 0..Len(clog) /\ Shown(m, h)
    BY <1>0, Zenon DEF NodeTypes, Shows
  <2>2. g[applied[m]] = h[applied[m]]
    BY <1>2, <2>1, Zenon
  <2> QED BY <1>0, <1>1, <2>1, <2>2 DEF Shown
<1>4. g[snapshot.index] = h[snapshot.index]
  BY <1>0, <1>2, Zenon DEF FileTypes
<1> QED BY <1>0, <1>2, <1>3, <1>4, Zenon DEF Shows

(* What a replica that applies its next command shows. *)
LEMMA ApplyShown ==
  ASSUME TypeInv, Plain, NEW h \in [0..Len(clog) -> Engines], Shows(h), NEW n \in Nodes, Apply(n)
  PROVE  Shown(n, h)'
<1> DEFINE a == applied[n]
           cmd == clog[a + 1]
<1>0. /\ a \in 0..Len(clog) /\ a < Len(clog) /\ Len(clog) \in Nat /\ now \in Nat /\ now' = now
      /\ applied'[n] = a + 1 /\ eng'[n] = ApplyCommand(eng[n], cmd) /\ eng[n] \in Engines
      /\ h[a] \in Engines
  <2>1. /\ a \in 0..Len(clog) /\ Len(clog) \in Nat /\ now \in Nat /\ eng[n] \in Engines
        /\ applied \in [Nodes -> 0..Len(clog)] /\ eng \in [Nodes -> Engines]
    BY TypeParts, Zenon DEF NodeTypes, LogTypes
  <2> QED BY <2>1, Zenon DEF Apply, Given
<1>1. cmd \in Commands /\ Usual(cmd)
  <2>1. a + 1 \in 1..Len(clog)
    BY <1>0
  <2> HIDE DEF a
  <2> QED BY <2>1, ElementOfSeq, TypeParts, Zenon DEF LogTypes
<1>2. eng'[n] = Step(now, eng[n], cmd)
  BY <1>0, ApplyIsStep, Zenon
<1>3. h[a + 1] = Step(now, h[a], cmd)
  <2>1. a + 1 \in 1..Len(clog) /\ (a + 1) - 1 = a
    BY <1>0
  <2>2. h[a + 1] = Step(now, h[(a + 1) - 1], clog[a + 1])
    BY <2>1, Zenon DEF Shows, History
  <2> QED BY <2>1, <2>2, Zenon
<1>4. cmd.op # "cas" /\ (IsReset(cmd) \/ cmd.idem = NoIdem)
  BY <1>1, Zenon DEF Usual, Plain
<1> SUFFICES Same(now, Step(now, eng[n], cmd), Step(now, h[a], cmd))
  BY <1>0, <1>2, <1>3, Zenon DEF Shown
<1>5. CASE Same(now, eng[n], h[a])
  <2>1. now \in Nat /\ eng[n] \in Engines /\ h[a] \in Engines
    BY <1>0, Zenon
  <2> HIDE DEF a, cmd
  <2> QED BY <1>1, <1>4, <1>5, <2>1, SameStep, Zenon
<1>6. CASE "restart" \in setting.faults
  <2>1. IsReset(cmd)
    BY <1>1, <1>6, Zenon DEF Usual, Plain, Deterministic
  <2>2. Step(now, eng[n], cmd) = Step(now, h[a], cmd)
    BY <1>0, <1>1, <2>1, StepEffect, ZenonT(40)
  <2> QED BY <2>2, SameRelation, Zenon
<1> QED BY <1>5, <1>6, Zenon DEF Shows, Shown

(* A replica that takes no part in the step, and what time does to one. *)
LEMMA ShownFrame ==
  ASSUME TypeInv, NEW h \in [0..Len(clog) -> Engines], NEW n \in Nodes, Shown(n, h),
         UNCHANGED <<setting, clog>>, applied'[n] = applied[n], eng'[n] = eng[n],
         now' \in Nat, now <= now'
  PROVE  Shown(n, h)'
<1>1. now \in Nat /\ eng[n] \in Engines /\ h[applied[n]] \in Engines
  BY TypeParts, Zenon DEF NodeTypes, LogTypes
<1>2. Same(now, eng[n], h[applied[n]]) => Same(now', eng[n], h[applied[n]])
  BY <1>1, SameLater, Zenon
<1> QED BY <1>2, Zenon DEF Shown

(* The snapshot, likewise. *)
LEMMA SnapshotFrame ==
  ASSUME TypeInv, NEW h \in [0..Len(clog) -> Engines], Shows(h), UNCHANGED snapshot,
         now' \in Nat, now <= now'
  PROVE  (snapshot.index > 0 => Same(now, Loaded(snapshot.entries), h[snapshot.index]))'
<1>1. /\ now \in Nat /\ h[snapshot.index] \in Engines
      /\ Loaded(snapshot.entries) \in Engines
  BY TypeParts, LoadedType, Zenon DEF FileTypes, LogTypes
<1>2. ASSUME snapshot.index > 0
      PROVE  Same(now', Loaded(snapshot.entries), h[snapshot.index])
  BY <1>1, <1>2, SameLater, Zenon DEF Shows
<1> QED BY <1>2, Zenon DEF Loaded, NewEngine

LEMMA ShowStep ==
  ASSUME TypeInv, TypeInv', [Next]_vars, ShowInv
  PROVE  ShowInv'
<1>0. /\ NodeTypes /\ FileTypes /\ LogTypes /\ eng \in [Nodes -> Engines] /\ Len(clog) \in Nat
      /\ now \in Nat
  BY TypeParts, ZenonT(40) DEF LogTypes
<1>1. setting' = setting
  BY SettingKept, Zenon
<1> SUFFICES ASSUME Plain PROVE \E g \in [0..Len(clog') -> Engines] : Shows(g)'
  BY <1>1, Zenon DEF ShowInv, Plain, Deterministic
<1>2. PICK h \in [0..Len(clog) -> Engines] : Shows(h)
  BY Zenon DEF ShowInv
<1>3. ASSUME NEW n \in Nodes, Proposes(n)
      PROVE  \E g \in [0..Len(clog') -> Engines] : Shows(g)'
  BY <1>2, <1>3, ProposedCommand, ProposeShows, Zenon
<1>4. ASSUME clog' = clog, now' \in Nat, now <= now',
             \A n \in Nodes : Shown(n, h)',
             (snapshot.index > 0 => Same(now, Loaded(snapshot.entries), h[snapshot.index]))'
      PROVE  \E g \in [0..Len(clog') -> Engines] : Shows(g)'
  <2>1. History(h)'
    BY <1>1, <1>2, <1>4, HistoryKept, Zenon DEF Plain, Shows
  <2> QED BY <1>4, <2>1, Zenon DEF Shows
<1>5. CASE Tick \/ UNCHANGED <<now, clog, applied, eng, snapshot>>
  <2>1. UNCHANGED <<clog, applied, eng, snapshot>> /\ now' \in Nat /\ now <= now'
    BY <1>0, <1>5 DEF Tick, fileVars
  <2>2. \A n \in Nodes : Shown(n, h)'
    BY <1>1, <1>2, <2>1, ShownFrame, Zenon DEF Shows
  <2> QED BY <1>2, <1>4, <2>1, <2>2, SnapshotFrame, Zenon
<1>6. ASSUME NEW n \in Nodes, Apply(n) \/ Restore(n) \/ Restart(n), Shown(n, h)'
      PROVE  \E g \in [0..Len(clog') -> Engines] : Shows(g)'
  <2>1. UNCHANGED <<clog, now, snapshot>> /\ now' \in Nat /\ now <= now'
    BY <1>0, <1>6 DEF Apply, Restore, Restart, fileVars
  <2>2. \A m \in Nodes \ {n} : applied'[m] = applied[m] /\ eng'[m] = eng[m]
    BY <1>0, <1>6, Zenon DEF Apply, Given, Restore, Restart, NodeTypes
  <2>3. ASSUME NEW m \in Nodes PROVE Shown(m, h)'
    <3>1. CASE m = n
      BY <1>6, <3>1, Zenon
    <3>2. CASE m # n
      <4>1. applied'[m] = applied[m] /\ eng'[m] = eng[m]
        BY <2>2, <3>2, Zenon
      <4>2. Shown(m, h)
        BY <1>2, Zenon DEF Shows
      <4> QED BY <1>1, <2>1, <4>1, <4>2, ShownFrame, Zenon
    <3> QED BY <3>1, <3>2, Zenon
  <2> QED BY <1>2, <1>4, <2>1, <2>3, SnapshotFrame, ZenonT(40)
<1>7. ASSUME NEW n \in Nodes, Apply(n)
      PROVE  Shown(n, h)'
  BY <1>2, <1>7, ApplyShown, Zenon
<1>8. ASSUME NEW n \in Nodes, Restart(n)
      PROVE  Shown(n, h)'
  <2>1. /\ applied'[n] = 0 /\ UNCHANGED <<now, clog, eng>> /\ "restart" \in setting.faults
        /\ applied[n] \in 0..Len(clog)
    BY <1>0, <1>8, SoundDisks, Zenon DEF Restart, NodeTypes, Plain, Deterministic
  <2>2. CASE applied[n] = 0
    BY <1>1, <1>2, <2>1, <2>2, Zenon DEF Shows, Shown
  <2>3. CASE applied[n] # 0
    <3>1. Len(clog) > 0
      BY <1>0, <2>1, <2>3
    <3> QED BY <1>1, <2>1, <3>1, Zenon DEF Shown
  <2> QED BY <2>2, <2>3, Zenon
<1>9. ASSUME NEW n \in Nodes, Restore(n)
      PROVE  Shown(n, h)'
  <2>1. /\ applied'[n] = snapshot.index /\ now' = now /\ applied[n] < snapshot.index
        /\ eng'[n] = Loaded(snapshot.entries)
    BY <1>0, <1>9, Zenon DEF Restore, Behind, NodeTypes
  <2>2. snapshot.index > 0
    BY <1>0, <2>1 DEF NodeTypes, FileTypes
  <2> QED BY <1>2, <2>1, <2>2, Zenon DEF Shows, Shown
<1>10. ASSUME NEW n \in Nodes, Snapshot(n)
       PROVE  \E g \in [0..Len(clog') -> Engines] : Shows(g)'
  <2>1. UNCHANGED <<clog, now, applied, eng>> /\ now' \in Nat /\ now <= now'
    BY <1>0, <1>10 DEF Snapshot
  <2>2. \A m \in Nodes : Shown(m, h)'
    BY <1>1, <1>2, <2>1, ShownFrame, Zenon DEF Shows
  <2>3. PICK s \in EngineSnapshots(eng[n]) : snapshot' = [index |-> applied[n], entries |-> s]
    BY <1>10, Zenon DEF Snapshot
  <2>4. snapshot'.index = applied[n] /\ snapshot'.entries = s /\ applied[n] # 0
    BY <1>0, <1>10, <2>3 DEF Snapshot, NodeTypes, FileTypes
  <2>5. Same(now, Loaded(s), eng[n])
    BY <1>0, SameLoaded, Zenon
  <2>6. Same(now, eng[n], h[applied[n]])
    BY <1>2, <2>4, Zenon DEF Shows, Shown
  <2>7. Same(now, Loaded(s), h[applied[n]])
    BY <2>5, <2>6, SameRelation, Zenon
  <2>8. (snapshot.index > 0 => Same(now, Loaded(snapshot.entries), h[snapshot.index]))'
    BY <2>1, <2>4, <2>7, Zenon DEF Loaded, NewEngine
  <2> QED BY <1>4, <2>1, <2>2, <2>8, Zenon
<1>11. ASSUME NEW n \in Nodes, ApplyError(n) \/ RestoreError(n) \/ RespSet(n) \/ RespDel(n)
       PROVE  FALSE
  BY <1>11, SoundDisks, Zenon DEF Plain, Deterministic
<1>12. ASSUME NEW n \in Nodes, NewLeader(n) \/ ProposeLost(n) \/ CreateBackup(n) \/ Membership(n)
       PROVE  UNCHANGED <<now, clog, applied, eng, snapshot>>
  BY <1>12, Zenon DEF NewLeader, ProposeLost, CreateBackup, Membership, AddNode, RemoveNode,
     ListNodes, ListConfiguration, ListLeader, LearnConfiguration, fileVars
<1>13. UNCHANGED vars => UNCHANGED <<now, clog, applied, eng, snapshot>>
  BY DEF vars, fileVars
<1> QED BY <1>3, <1>5, <1>6, <1>7, <1>8, <1>9, <1>10, <1>11, <1>12, <1>13, Zenon DEF Next,
   Proposes, Membership

(* Replicas that have caught up show the same live entries, also the ones that were started
   from a peer's snapshot, whatever expires in the meantime. *)
THEOREM SnapshotsCarryContents == Spec => []ContentsAgree
<1>1. Init => TypeInv /\ ShowInv
  BY TypeInit, ShowInit
<1>2. TypeInv /\ ShowInv /\ [Next]_vars => (TypeInv /\ ShowInv)'
  BY TypeStep, ShowStep
<1>3. TypeInv /\ ShowInv => ContentsAgree
  <2> SUFFICES ASSUME TypeInv, ShowInv, Plain, NEW m \in Nodes, NEW n \in Nodes,
                      CaughtUp(m), CaughtUp(n)
               PROVE  Contents(m) = Contents(n)
    BY Zenon DEF ContentsAgree, Plain
  <2>0. Len(clog) \in Nat
    BY TypeParts, Zenon
  <2>1. PICK h \in [0..Len(clog) -> Engines] : Shows(h)
    BY Zenon DEF ShowInv
  <2>2. Same(now, eng[m], h[Len(clog)]) /\ Same(now, eng[n], h[Len(clog)])
    BY <2>0, <2>1 DEF Shows, Shown, CaughtUp
  <2>3. Same(now, eng[m], eng[n])
    BY <2>2, SameRelation, Zenon
  <2>4. \A k \in Keys : /\ k \in Live(eng[m]) <=> LiveAt(now, eng[m].index[k])
                        /\ k \in Live(eng[n]) <=> LiveAt(now, eng[n].index[k])
    BY Zenon DEF Live, LiveAt
  <2>5. Live(eng[m]) = Live(eng[n])
    <3>1. Live(eng[m]) \subseteq Keys /\ Live(eng[n]) \subseteq Keys
      BY Zenon DEF Live
    <3> QED BY <2>3, <2>4, <3>1, Zenon DEF Same, SameEntry
  <2>6. \A k \in Live(eng[m]) : /\ eng[m].index[k].val = eng[n].index[k].val
                                /\ eng[m].index[k].exp = eng[n].index[k].exp
    <3>1. Live(eng[m]) \subseteq Keys
      BY Zenon DEF Live
    <3> QED BY <2>3, <2>4, <3>1, Zenon DEF Same, SameEntry
  <2> QED BY <2>5, <2>6, Zenon DEF Contents
<1> QED BY <1>1, <1>2, <1>3, PTL DEF Spec
=============================================================================
