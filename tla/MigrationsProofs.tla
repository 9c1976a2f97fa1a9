--------------------------- MODULE MigrationsProofs ---------------------------
(***************************************************************************)
(* For any number of instances, versions, builds and starts: IndInv is an  *)
(* invariant of Migrations, and Migrations implements MigrationLog.        *)
(***************************************************************************)
EXTENDS Migrations, TLAPS

(* Instances that touch neither the stores nor their own locals.           *)
LEMMA StaysSound ==
  ASSUME IndInv, NEW j \in Instances,
         pc'[j] = pc[j], build'[j] = build[j], todo'[j] = todo[j],
         cur'[j] = cur[j], seen'[j] = seen[j], err'[j] = err[j],
         started \subseteq started',
         \/ rows' = rows
         \/ /\ pc[j] \notin Looping
            /\ \A v \in Versions : rows[v] # None => rows'[v] = rows[v]
  PROVE  InstanceSound(j)'
<1>1. InstanceSound(j) /\ build[j] \subseteq File /\ todo[j] \subseteq File
  BY DEF IndInv, TypeOK, InstancesSound
<1>2. CASE rows' = rows
  BY <1>1, <1>2 DEF InstanceSound, Succeeding, Holding, Working, Looping, Valid, Lowest
<1>3. CASE /\ pc[j] \notin Looping
           /\ \A v \in Versions : rows[v] # None => rows'[v] = rows[v]
  <2>1. \A f \in build[j] : f.version \in Versions /\ f.checksum # None
    BY <1>1, MigrationsAssumption DEF File
  <2>2. ASSUME NEW f \in build[j], rows[f.version] = f.checksum
        PROVE  rows'[f.version] = f.checksum
    BY <1>3, <2>1, <2>2
  <2>3. pc[j] \notin {"next", "body", "record", "commit"}
    BY <1>3 DEF Looping
  <2> QED BY <1>1, <2>2, <2>3 DEF InstanceSound, Succeeding, Holding, Working, Looping,
                                  Valid, Lowest
<1> QED BY <1>2, <1>3

(* Every action but the commits leaves rows and ran alone.                 *)
LEMMA SchemaUnchanged ==
  ASSUME IndInv, UNCHANGED schema, started \subseteq started',
         OneHolder', InstancesSound',
         ghost' \in {ghost, None}
  PROVE  GhostCurrent' /\ RecordedIffRan' /\ GapsComeFromBuilds'
<1>1. rows' = rows /\ ran' = ran
  BY DEF schema
<1>2. RecordedIffRan'
  BY <1>1 DEF IndInv, RecordedIffRan
<1>3. GapsComeFromBuilds'
  BY <1>1 DEF IndInv, GapsComeFromBuilds
<1>4. GhostCurrent'
  BY <1>1 DEF IndInv, GhostCurrent, Valid
<1> QED BY <1>2, <1>3, <1>4

(* What a commit of f does to the stores, when f is the next file some     *)
(* started build wants.                                                    *)
LEMMA CommitStores ==
  ASSUME IndInv, NEW f \in File, Committed(f), rows[f.version] = None,
         UNCHANGED <<started>>,
         NEW b \in started, Valid(b), f \in b,
         \A g \in b : g.version < f.version => rows[g.version] # None
  PROVE  /\ rows' \in [Versions -> Checksums \cup {None}] /\ ran' \in [Versions -> Nat]
         /\ rows'[f.version] = f.checksum
         /\ \A v \in Versions : rows[v] # None => rows'[v] = rows[v]
         /\ \A v \in Versions : v # f.version => rows'[v] = rows[v]
         /\ RecordedIffRan' /\ GapsComeFromBuilds'
<1>1. f.version \in Versions /\ f.checksum \in Checksums /\ f.checksum # None
  BY MigrationsAssumption DEF File
<1>2. /\ ran' = [ran EXCEPT ![f.version] = @ + 1]
      /\ rows' = [rows EXCEPT ![f.version] = f.checksum]
  BY DEF Committed
<1>3. ran \in [Versions -> Nat] /\ rows \in [Versions -> Checksums \cup {None}]
  BY DEF IndInv, TypeOK
<1>4. ran[f.version] = 0
  BY <1>1 DEF IndInv, RecordedIffRan
<1>5. RecordedIffRan'
  <2>1. ASSUME NEW v \in Versions PROVE ran'[v] = IF rows'[v] = None THEN 0 ELSE 1
    <3>1. CASE v = f.version
      BY <1>1, <1>2, <1>3, <1>4, <3>1
    <3>2. CASE v # f.version
      BY <1>2, <1>3, <3>2 DEF IndInv, RecordedIffRan
    <3> QED BY <3>1, <3>2
  <2> QED BY <2>1 DEF RecordedIffRan
<1>6. GapsComeFromBuilds'
  <2>1. ASSUME NEW v \in Versions, NEW w \in Versions, v < w, rows'[v] = None, rows'[w] # None
        PROVE  \E c \in started : (\E g \in c : g.version = w) /\ (\A g \in c : g.version # v)
    <3>1. rows[v] = None /\ v # f.version
      BY <1>1, <1>2, <1>3, <2>1
    <3>2. CASE w = f.version
      <4>1. \A g \in b : g.version # v
        BY <2>1, <3>1, <3>2
      <4> QED BY <3>2, <4>1
    <3>3. CASE w # f.version
      <4>1. rows[w] # None
        BY <1>2, <1>3, <2>1, <3>3
      <4> QED BY <2>1, <3>1, <4>1 DEF IndInv, GapsComeFromBuilds
    <3> QED BY <3>2, <3>3
  <2> QED BY <2>1 DEF GapsComeFromBuilds
<1> QED BY <1>1, <1>2, <1>3, <1>5, <1>6

-------------------------------------------------------------------------------
LEMMA InitInd == Init => IndInv
<1> SUFFICES ASSUME Init PROVE IndInv OBVIOUS
<1>1. TypeOK
  <2>1. pc \in [Instances -> {"off", "lock", "done", "failed"} \cup Holding]
    BY DEF Init
  <2>2. /\ build \in [Instances -> SUBSET File] /\ todo \in [Instances -> SUBSET File]
        /\ cur \in [Instances -> File \cup {None}] /\ err \in [Instances -> BOOLEAN]
    BY DEF Init
  <2>3. seen \in [Instances -> [Versions -> Checksums \cup {None}]]
    BY DEF Init
  <2>4. rows \in [Versions -> Checksums \cup {None}] /\ ran \in [Versions -> Nat]
    BY DEF Init
  <2>5. /\ holder \in Instances \cup {None, Ghost} /\ ghost \in File \cup {None}
        /\ strays \in Nat /\ table \in BOOLEAN /\ faulted \in BOOLEAN
        /\ started \subseteq Builds
    BY DEF Init
  <2>6. starts \in 0..MaxStarts
    <3>1. MaxStarts \in Nat /\ starts = 0
      BY MigrationsAssumption DEF Init
    <3> QED BY <3>1
  <2> QED BY <2>1, <2>2, <2>3, <2>4, <2>5, <2>6 DEF TypeOK
<1>2. OneHolder /\ GhostCurrent
  BY MigrationsAssumption DEF Init, OneHolder, GhostCurrent, Holding, Working
<1>3. InstancesSound
  BY DEF Init, InstancesSound, InstanceSound, Succeeding, Holding, Working, Looping
<1>4. RecordedIffRan /\ GapsComeFromBuilds
  BY DEF Init, RecordedIffRan, GapsComeFromBuilds
<1> QED BY <1>1, <1>2, <1>3, <1>4 DEF IndInv

LEMMA StartInd ==
  ASSUME IndInv, NEW i \in Instances, NEW b \in Builds, Start(i, b)
  PROVE  IndInv'
<1>1. /\ pc[i] \in {"off", "failed"}
      /\ pc' = [pc EXCEPT ![i] = IF Valid(b) THEN "lock" ELSE "failed"]
      /\ build' = [build EXCEPT ![i] = b] /\ todo' = [todo EXCEPT ![i] = b]
      /\ err' = [err EXCEPT ![i] = FALSE]
      /\ starts < MaxStarts /\ starts' = starts + 1
      /\ started' = started \cup {b}
      /\ UNCHANGED <<cur, seen, holder, ghost, strays, schema, faulted>>
  BY DEF Start, Goto
<1>2. b \subseteq File
  BY MigrationsAssumption
<1>3. TypeOK'
  BY <1>1, <1>2, MigrationsAssumption DEF IndInv, TypeOK, schema
<1>4. OneHolder'
  BY <1>1 DEF IndInv, TypeOK, OneHolder, Holding, Working
<1>5. InstancesSound'
  <2>1. ASSUME NEW j \in Instances, j # i PROVE InstanceSound(j)'
    BY <1>1, <2>1, StaysSound DEF IndInv, TypeOK, schema
  <2>2. InstanceSound(i)'
    <3>1. /\ pc'[i] = IF Valid(b) THEN "lock" ELSE "failed"
          /\ build'[i] = b /\ todo'[i] = b /\ err'[i] = FALSE /\ b \in started'
      BY <1>1 DEF IndInv, TypeOK
    <3> QED BY <3>1 DEF InstanceSound, Succeeding, Holding, Working, Looping, Valid
  <2> QED BY <2>1, <2>2 DEF InstancesSound
<1>6. GhostCurrent' /\ RecordedIffRan' /\ GapsComeFromBuilds'
  BY <1>1, <1>4, <1>5, SchemaUnchanged
<1> QED BY <1>3, <1>4, <1>5, <1>6 DEF IndInv

(* The steps of an instance that leave the stores alone: they need only    *)
(* leave the instance itself sound.                                        *)
LEMMA LocalStep ==
  ASSUME IndInv, NEW i \in Instances, NEW p \in {"lock", "done", "failed", "off"} \cup Holding,
         pc' = [pc EXCEPT ![i] = p],
         todo' \in [Instances -> SUBSET File], cur' \in [Instances -> File \cup {None}],
         seen' \in [Instances -> [Versions -> Checksums \cup {None}]],
         err' \in [Instances -> BOOLEAN],
         \A j \in Instances : j # i => /\ todo'[j] = todo[j] /\ cur'[j] = cur[j]
                                       /\ seen'[j] = seen[j] /\ err'[j] = err[j],
         holder' \in Instances \cup {None, Ghost}, ghost' \in {ghost, None},
         strays' \in Nat, table' \in BOOLEAN, faulted' \in BOOLEAN,
         UNCHANGED <<build, rows, ran, starts, started>>,
         OneHolder', InstanceSound(i)'
  PROVE  IndInv'
<1>1. TypeOK'
  BY DEF IndInv, TypeOK
<1>2. InstancesSound'
  <2>1. ASSUME NEW j \in Instances, j # i PROVE InstanceSound(j)'
    BY <2>1, StaysSound DEF IndInv, TypeOK
  <2> QED BY <2>1 DEF InstancesSound
<1>3. RecordedIffRan' /\ GapsComeFromBuilds' /\ GhostCurrent'
  BY DEF IndInv, RecordedIffRan, GapsComeFromBuilds, GhostCurrent, Valid
<1> QED BY <1>1, <1>2, <1>3 DEF IndInv

LEMMA LockInd ==
  ASSUME IndInv, NEW i \in Instances, Lock(i)
  PROVE  IndInv'
<1>1. /\ pc[i] = "lock" /\ holder = None /\ holder' = i /\ pc' = [pc EXCEPT ![i] = "ensure"]
      /\ UNCHANGED <<build, todo, cur, seen, err, ghost, strays, schema, history>>
  BY DEF Lock, Goto
<1>2. OneHolder'
  BY <1>1, MigrationsAssumption DEF IndInv, TypeOK, OneHolder, Holding, Working
<1>3. InstanceSound(i)'
  BY <1>1 DEF IndInv, TypeOK, InstancesSound, InstanceSound, Succeeding, Holding, Working,
              Looping, Valid, history
<1> QED BY <1>1, <1>2, <1>3, LocalStep DEF IndInv, TypeOK, schema, history, Holding, Working

LEMMA EnsureInd ==
  ASSUME IndInv, NEW i \in Instances, EnsureTable(i)
  PROVE  IndInv'
<1>1. /\ pc[i] = "ensure" /\ pc' = [pc EXCEPT ![i] = "read"] /\ table' = TRUE
      /\ UNCHANGED <<build, todo, cur, seen, err, holder, ghost, strays, rows, ran, history>>
  BY DEF EnsureTable, Goto
<1>2. OneHolder'
  BY <1>1 DEF IndInv, TypeOK, OneHolder, Holding, Working
<1>3. InstanceSound(i)'
  BY <1>1 DEF IndInv, TypeOK, InstancesSound, InstanceSound, Succeeding, Holding, Working,
              Looping, Valid, history
<1> QED BY <1>1, <1>2, <1>3, LocalStep DEF IndInv, TypeOK, schema, history, Holding, Working

LEMMA ReadInd ==
  ASSUME IndInv, NEW i \in Instances, ReadApplied(i)
  PROVE  IndInv'
<1>1. /\ pc[i] = "read" /\ pc' = [pc EXCEPT ![i] = "next"] /\ seen' = [seen EXCEPT ![i] = rows]
      /\ UNCHANGED <<build, todo, cur, err, holder, ghost, strays, schema, history>>
  BY DEF ReadApplied, Goto
<1>2. OneHolder'
  BY <1>1 DEF IndInv, TypeOK, OneHolder, Holding, Working
<1>3. seen'[i] = rows /\ pc'[i] = "next" /\ rows' = rows
  BY <1>1 DEF IndInv, TypeOK, schema
<1>4. InstanceSound(i)'
  BY <1>1, <1>3 DEF IndInv, TypeOK, InstancesSound, InstanceSound, Succeeding, Holding, Working,
              Looping, Valid, history
<1>5. seen' \in [Instances -> [Versions -> Checksums \cup {None}]]
  BY <1>1 DEF IndInv, TypeOK
<1> QED BY <1>1, <1>2, <1>4, <1>5, LocalStep
        DEF IndInv, TypeOK, schema, history, Holding, Working

(* An instance on its way to the unlock with an error keeps no promise.    *)
LEMMA AbortSound ==
  ASSUME IndInv, NEW i \in Instances, pc[i] \in Holding, Abort(i),
         UNCHANGED <<build, started>>, todo'[i] \subseteq todo[i]
  PROVE  InstanceSound(i)'
<1>1. pc'[i] = "unlock" /\ err'[i] = TRUE
  BY DEF Abort, Goto, IndInv, TypeOK
<1> QED BY <1>1 DEF IndInv, InstancesSound, InstanceSound, Succeeding, Holding, Working,
                    Looping, Valid

LEMMA NextFileInd ==
  ASSUME IndInv, NEW i \in Instances, NextFile(i)
  PROVE  IndInv'
<1>1. /\ pc[i] = "next" /\ pc[i] \in Holding /\ pc[i] \in Looping
      /\ UNCHANGED <<build, seen, holder, ghost, strays, schema, history>>
  BY DEF NextFile, Holding, Looping
<1>2. InstanceSound(i) /\ todo[i] \subseteq File
  BY DEF IndInv, TypeOK, InstancesSound
<1>3. ASSUME NEW p \in Holding, pc' = [pc EXCEPT ![i] = p],
             NEW S \in SUBSET todo[i], todo' = [todo EXCEPT ![i] = S],
             NEW f \in File \cup {None}, cur' = [cur EXCEPT ![i] = f],
             NEW e \in BOOLEAN, err' = [err EXCEPT ![i] = e],
             InstanceSound(i)'
      PROVE  IndInv'
  <2>1. OneHolder'
    BY <1>1, <1>3 DEF IndInv, TypeOK, OneHolder
  <2> QED BY <1>1, <1>2, <1>3, <2>1, LocalStep DEF IndInv, TypeOK, schema, history
<1>4. CASE todo[i] = {} /\ Goto(i, "unlock") /\ UNCHANGED <<todo, cur, err>>
  <2>1. InstanceSound(i)'
    BY <1>1, <1>2, <1>4 DEF Goto, IndInv, TypeOK, InstanceSound, Succeeding, Holding, Working,
                            Looping, Valid, schema, history
  <2>2. cur[i] \in File \cup {None} /\ err[i] \in BOOLEAN /\ "unlock" \in Holding
    BY DEF IndInv, TypeOK, Holding
  <2>3. /\ todo' = [todo EXCEPT ![i] = todo[i]] /\ cur' = [cur EXCEPT ![i] = cur[i]]
        /\ err' = [err EXCEPT ![i] = err[i]] /\ pc' = [pc EXCEPT ![i] = "unlock"]
    BY <1>4 DEF IndInv, TypeOK, Goto
  <2> QED BY <1>3, <2>1, <2>2, <2>3
<1>5. ASSUME NEW f \in todo[i], Lowest(todo[i], f), Skip(i, f) PROVE IndInv'
  <2>1. /\ seen[i][f.version] = f.checksum
        /\ todo' = [todo EXCEPT ![i] = todo[i] \ {f}] /\ UNCHANGED <<pc, cur, err>>
    BY <1>5 DEF Skip
  <2>2. rows[f.version] = f.checksum
    BY <1>1, <1>2, <2>1 DEF InstanceSound
  <2>3. todo'[i] = todo[i] \ {f}
    BY <2>1 DEF IndInv, TypeOK
  <2>4. InstanceSound(i)'
    BY <1>1, <1>2, <2>1, <2>2, <2>3 DEF InstanceSound, Succeeding, Holding, Working,
                                        Looping, Valid, schema, history
  <2>5. cur[i] \in File \cup {None} /\ err[i] \in BOOLEAN
    BY DEF IndInv, TypeOK
  <2>6. /\ cur' = [cur EXCEPT ![i] = cur[i]] /\ err' = [err EXCEPT ![i] = err[i]]
        /\ pc' = [pc EXCEPT ![i] = pc[i]]
    BY <2>1 DEF IndInv, TypeOK
  <2> QED BY <1>1, <1>3, <2>1, <2>4, <2>5, <2>6
<1>6. ASSUME NEW f \in todo[i], Lowest(todo[i], f), Refuse(i, f) PROVE IndInv'
  <2>1. Abort(i) /\ UNCHANGED <<todo, cur>>
    BY <1>6 DEF Refuse
  <2>2. InstanceSound(i)'
    BY <1>1, <2>1, AbortSound DEF history
  <2>3. cur[i] \in File \cup {None} /\ "unlock" \in Holding
    BY DEF IndInv, TypeOK, Holding
  <2>4. /\ todo' = [todo EXCEPT ![i] = todo[i]] /\ cur' = [cur EXCEPT ![i] = cur[i]]
        /\ err' = [err EXCEPT ![i] = TRUE] /\ pc' = [pc EXCEPT ![i] = "unlock"]
    BY <2>1 DEF IndInv, TypeOK, Abort, Goto
  <2> QED BY <1>3, <2>2, <2>3, <2>4
<1>7. ASSUME NEW f \in todo[i], Lowest(todo[i], f), Begin(i, f) PROVE IndInv'
  <2>1. /\ seen[i][f.version] = None
        /\ cur' = [cur EXCEPT ![i] = f] /\ pc' = [pc EXCEPT ![i] = "body"]
        /\ UNCHANGED <<todo, err>>
    BY <1>7 DEF Begin, Goto
  <2>2. rows[f.version] = None
    BY <1>1, <1>2, <2>1 DEF InstanceSound
  <2>3. cur'[i] = f /\ pc'[i] = "body"
    BY <2>1 DEF IndInv, TypeOK
  <2>4. InstanceSound(i)'
    BY <1>1, <1>2, <1>7, <2>1, <2>2, <2>3 DEF InstanceSound, Succeeding, Holding, Working,
                                              Looping, Valid, Lowest, schema, history
  <2>5. err[i] \in BOOLEAN /\ f \in File \cup {None} /\ "body" \in Holding
    BY <1>2 DEF IndInv, TypeOK, Holding, Working
  <2>6. /\ todo' = [todo EXCEPT ![i] = todo[i]] /\ err' = [err EXCEPT ![i] = err[i]]
    BY <2>1 DEF IndInv, TypeOK
  <2> QED BY <1>3, <2>1, <2>4, <2>5, <2>6
<1> QED BY <1>4, <1>5, <1>6, <1>7 DEF NextFile

LEMMA RunBodyInd ==
  ASSUME IndInv, NEW i \in Instances, RunBody(i)
  PROVE  IndInv'
<1>1. /\ pc[i] = "body" /\ pc[i] \in Holding
      /\ UNCHANGED <<build, todo, cur, seen, holder, ghost, strays, schema, history>>
  BY DEF RunBody, Holding, Working
<1>2. CASE Abort(i)
  <2>1. InstanceSound(i)'
    BY <1>1, <1>2, AbortSound DEF history
  <2>2. /\ err' = [err EXCEPT ![i] = TRUE] /\ pc' = [pc EXCEPT ![i] = "unlock"]
        /\ "unlock" \in Holding
    BY <1>2 DEF Abort, Goto, Holding
  <2>3. OneHolder'
    BY <1>1, <2>2 DEF IndInv, TypeOK, OneHolder
  <2> QED BY <1>1, <2>1, <2>2, <2>3, LocalStep DEF IndInv, TypeOK, schema, history
<1>3. CASE Goto(i, "record") /\ UNCHANGED err
  <2>1. pc' = [pc EXCEPT ![i] = "record"] /\ err' = err /\ "record" \in Holding
    BY <1>3 DEF Goto, Holding, Working
  <2>2. InstanceSound(i)'
    BY <1>1, <2>1 DEF IndInv, TypeOK, InstancesSound, InstanceSound, Succeeding, Holding,
                      Working, Looping, Valid, Lowest, schema, history
  <2>3. OneHolder'
    BY <1>1, <2>1 DEF IndInv, TypeOK, OneHolder
  <2> QED BY <1>1, <2>1, <2>2, <2>3, LocalStep DEF IndInv, TypeOK, schema, history
<1> QED BY <1>2, <1>3 DEF RunBody

LEMMA RecordInd ==
  ASSUME IndInv, NEW i \in Instances, Record(i)
  PROVE  IndInv'
<1>1. /\ pc[i] = "record" /\ pc' = [pc EXCEPT ![i] = "commit"]
      /\ UNCHANGED <<build, todo, cur, seen, err, holder, ghost, strays, schema, history>>
  BY DEF Record, Goto
<1>2. OneHolder'
  BY <1>1 DEF IndInv, TypeOK, OneHolder, Holding, Working
<1>3. InstanceSound(i)'
  BY <1>1 DEF IndInv, TypeOK, InstancesSound, InstanceSound, Succeeding, Holding, Working,
              Looping, Valid, Lowest, schema, history
<1> QED BY <1>1, <1>2, <1>3, LocalStep DEF IndInv, TypeOK, schema, history, Holding, Working

(* Of two files of a valid build with one version there is only one.       *)
LEMMA CommitInd ==
  ASSUME IndInv, NEW i \in Instances, Commit(i)
  PROVE  IndInv'
<1> DEFINE f == cur[i]
           b == build[i]
<1>1. /\ pc[i] = "commit" /\ Committed(f) /\ todo' = [todo EXCEPT ![i] = todo[i] \ {f}]
      /\ pc' = [pc EXCEPT ![i] = "next"]
      /\ UNCHANGED <<build, cur, seen, err, holder, ghost, strays, history>>
  BY DEF Commit, Goto
<1>2. InstanceSound(i) /\ todo[i] \subseteq File /\ b \subseteq File
  BY DEF IndInv, TypeOK, InstancesSound
<1>3. /\ Valid(b) /\ b \in started /\ todo[i] \subseteq b /\ ~err[i]
      /\ Lowest(todo[i], f) /\ rows[f.version] = None
      /\ \A g \in todo[i] : seen[i][g.version] = rows[g.version]
      /\ \A g \in b \ todo[i] : rows[g.version] = g.checksum
  BY <1>1, <1>2 DEF InstanceSound, Holding, Working, Looping
<1>4. f \in todo[i] /\ f \in b /\ f \in File
  BY <1>2, <1>3 DEF Lowest
<1>5. \A g \in b : g.version < f.version => rows[g.version] # None
  <2>1. ASSUME NEW g \in b, g.version < f.version PROVE rows[g.version] # None
    <3>1. g \notin todo[i]
      BY <1>2, <1>3, <1>4, <2>1, MigrationsAssumption DEF Lowest, File
    <3>2. g.checksum # None
      BY <1>2, <2>1, MigrationsAssumption DEF File
    <3> QED BY <1>3, <2>1, <3>1, <3>2
  <2> QED BY <2>1
<1>6. /\ rows' \in [Versions -> Checksums \cup {None}] /\ ran' \in [Versions -> Nat]
      /\ rows'[f.version] = f.checksum
      /\ \A v \in Versions : rows[v] # None => rows'[v] = rows[v]
      /\ \A v \in Versions : v # f.version => rows'[v] = rows[v]
      /\ RecordedIffRan' /\ GapsComeFromBuilds'
  BY <1>1, <1>3, <1>4, <1>5, CommitStores DEF history
<1>7. OneHolder'
  BY <1>1 DEF IndInv, TypeOK, OneHolder, Holding, Working
<1>8. holder = i /\ holder # Ghost /\ \A j \in Instances : j # i => pc[j] \notin Looping
  <2>1. holder = i
    BY <1>1 DEF IndInv, OneHolder, Holding, Working
  <2> QED BY <2>1, MigrationsAssumption DEF IndInv, OneHolder, Holding, Working, Looping
<1>9. InstancesSound'
  <2>1. ASSUME NEW j \in Instances, j # i PROVE InstanceSound(j)'
    BY <1>1, <1>6, <1>8, <2>1, StaysSound DEF IndInv, TypeOK, history
  <2>2. InstanceSound(i)'
    <3>1. /\ pc'[i] = "next" /\ todo'[i] = todo[i] \ {f} /\ err'[i] = err[i]
          /\ build'[i] = b /\ seen'[i] = seen[i] /\ started' = started
      BY <1>1 DEF IndInv, TypeOK, history
    <3>2. \A g \in todo[i] \ {f} : g.version # f.version
      BY <1>3, <1>4 DEF Valid
    <3>3. \A g \in todo[i] \ {f} : seen[i][g.version] = rows'[g.version]
      BY <1>2, <1>3, <1>6, <3>2 DEF File
    <3>4. \A g \in b \ (todo[i] \ {f}) : rows'[g.version] = g.checksum
      <4>1. ASSUME NEW g \in b, g \notin todo[i] PROVE rows'[g.version] = g.checksum
        <5>1. rows[g.version] = g.checksum /\ g.checksum # None /\ g.version \in Versions
          BY <1>2, <1>3, <4>1, MigrationsAssumption DEF File
        <5> QED BY <1>6, <5>1
      <4> QED BY <1>6, <4>1
    <3> QED BY <1>3, <3>1, <3>3, <3>4 DEF InstanceSound, Succeeding, Holding, Working,
                                          Looping, Valid
  <2> QED BY <2>1, <2>2 DEF InstancesSound
<1>10. GhostCurrent'
  <2>1. ghost = None /\ ghost' = None
    BY <1>1, <1>8 DEF IndInv, OneHolder
  <2> QED BY <2>1 DEF GhostCurrent
<1>11. TypeOK'
  BY <1>1, <1>2, <1>6 DEF IndInv, TypeOK, Committed, history, Holding, Working
<1> QED BY <1>6, <1>7, <1>9, <1>10, <1>11 DEF IndInv

LEMMA UnlockInd ==
  ASSUME IndInv, NEW i \in Instances, Unlock(i)
  PROVE  IndInv'
<1>1. PICK p \in {"done", "failed"} :
        /\ pc' = [pc EXCEPT ![i] = p] /\ p = IF err[i] THEN "failed" ELSE "done"
  BY DEF Unlock, Goto
<1>2. /\ pc[i] = "unlock" /\ holder' = None
      /\ UNCHANGED <<build, todo, cur, seen, err, ghost, strays, schema, history>>
  BY DEF Unlock
<1>3. holder = i /\ \A j \in Instances : j # i => pc[j] \notin Holding
  <2>1. holder = i
    BY <1>2 DEF IndInv, OneHolder, Holding
  <2> QED BY <2>1 DEF IndInv, OneHolder
<1>4. OneHolder'
  BY <1>1, <1>2, <1>3, MigrationsAssumption DEF IndInv, TypeOK, OneHolder, Holding, Working
<1>5. InstanceSound(i)'
  BY <1>1, <1>2 DEF IndInv, TypeOK, InstancesSound, InstanceSound, Succeeding, Holding, Working,
                    Looping, Valid, schema, history
<1> QED BY <1>1, <1>2, <1>4, <1>5, LocalStep DEF IndInv, TypeOK, schema, history

-------------------------------------------------------------------------------
(* Faults. *)

LEMMA StatementFailsInd ==
  ASSUME IndInv, NEW i \in Instances, StatementFails(i)
  PROVE  IndInv'
<1>1. /\ pc[i] \in Holding /\ Abort(i) /\ faulted' = TRUE
      /\ UNCHANGED <<build, todo, cur, seen, holder, ghost, strays, schema, starts, started>>
  BY DEF StatementFails, Holding
<1>2. InstanceSound(i)'
  BY <1>1, AbortSound
<1>3. /\ err' = [err EXCEPT ![i] = TRUE] /\ pc' = [pc EXCEPT ![i] = "unlock"]
      /\ "unlock" \in Holding
  BY <1>1 DEF Abort, Goto, Holding
<1>4. OneHolder'
  BY <1>1, <1>3 DEF IndInv, TypeOK, OneHolder
<1> QED BY <1>1, <1>2, <1>3, <1>4, LocalStep DEF IndInv, TypeOK, schema

(* What an instance leaves behind is in order: at most a COMMIT of the     *)
(* file it was about to record.                                            *)
LEMMA AbandonInd ==
  ASSUME IndInv, NEW i \in Instances, pc[i] \in {"lock", "done"} \cup Holding,
         Abandon(i), NEW p \in {"done", "failed", "off"}, pc' = [pc EXCEPT ![i] = p],
         p = "done" => pc[i] = "unlock" /\ ~err[i],
         faulted' = TRUE,
         UNCHANGED <<build, todo, cur, seen, err, schema, starts, started>>
  PROVE  IndInv'
<1> DEFINE f == cur[i]
<1>1. InstanceSound(i)
  BY DEF IndInv, InstancesSound
<1>2. strays' \in Nat
  BY DEF Abandon, IndInv, TypeOK
<1>3. InstanceSound(i)'
  BY <1>1 DEF IndInv, TypeOK, InstanceSound, Succeeding, Holding, Working, Looping, Valid, schema
<1>4. CASE pc[i] \notin Holding
  <2>1. UNCHANGED <<holder, ghost>>
    BY <1>4 DEF Abandon
  <2>2. OneHolder'
    BY <1>4, <2>1 DEF IndInv, TypeOK, OneHolder, Holding, Working
  <2> QED BY <1>2, <1>3, <2>1, <2>2, LocalStep DEF IndInv, TypeOK, schema
<1>5. CASE pc[i] \in Holding
  <2>1. holder' = Ghost /\ ghost' = IF pc[i] = "commit" THEN f ELSE None
    BY <1>5 DEF Abandon
  <2>2. holder = i /\ \A j \in Instances : j # i => pc[j] \notin Holding
    BY <1>5 DEF IndInv, OneHolder
  <2>3. OneHolder'
    BY <2>1, <2>2, MigrationsAssumption DEF IndInv, TypeOK, OneHolder, Holding, Working
  <2>4. CASE pc[i] # "commit"
    <3>1. holder' \in Instances \cup {None, Ghost} /\ ghost' \in {ghost, None}
      BY <2>1, <2>4
    <3> QED BY <1>2, <1>3, <2>3, <3>1, LocalStep DEF IndInv, TypeOK, schema
  <2>5. CASE pc[i] = "commit"
    <3>1. /\ Valid(build[i]) /\ build[i] \in started /\ todo[i] \subseteq build[i]
          /\ Lowest(todo[i], f) /\ rows[f.version] = None
          /\ \A g \in build[i] \ todo[i] : rows[g.version] = g.checksum
          /\ build[i] \subseteq File
      BY <1>1, <2>5 DEF InstanceSound, Holding, Working, Looping, IndInv, TypeOK
    <3>2. f \in todo[i] /\ f \in File /\ f \in build[i]
      BY <3>1 DEF Lowest
    <3>3. ASSUME NEW g \in build[i], g.version < f.version PROVE rows[g.version] # None
      <4>1. g \notin todo[i]
        BY <3>1, <3>2, <3>3, MigrationsAssumption DEF Lowest, File
      <4>2. g.checksum # None
        BY <3>1, MigrationsAssumption DEF File
      <4> QED BY <3>1, <4>1, <4>2
    <3>4. GhostCurrent'
      <4>1. ghost' = f /\ rows' = rows /\ started' = started
        BY <2>1, <2>5 DEF schema
      <4>2. \E b \in started : /\ Valid(b) /\ f \in b
                               /\ \A g \in b : g.version < f.version => rows[g.version] # None
        BY <3>1, <3>2, <3>3
      <4> QED BY <3>1, <4>1, <4>2 DEF GhostCurrent, Valid
    <3>5. TypeOK'
      BY <1>2, <2>1, <3>2 DEF IndInv, TypeOK, schema
    <3>6. InstancesSound'
      <4>1. ASSUME NEW j \in Instances, j # i PROVE InstanceSound(j)'
        BY <4>1, StaysSound DEF IndInv, TypeOK, schema
      <4> QED BY <1>3, <4>1 DEF InstancesSound
    <3>7. RecordedIffRan' /\ GapsComeFromBuilds'
      BY DEF IndInv, RecordedIffRan, GapsComeFromBuilds, schema
    <3> QED BY <2>3, <3>4, <3>5, <3>6, <3>7 DEF IndInv
  <2> QED BY <2>4, <2>5
<1> QED BY <1>4, <1>5

LEMMA ConnectionBreaksInd ==
  ASSUME IndInv, NEW i \in Instances, ConnectionBreaks(i)
  PROVE  IndInv'
<1>1. PICK p \in {"done", "failed"} :
        /\ pc' = [pc EXCEPT ![i] = p]
        /\ p = "done" => pc[i] = "unlock" /\ ~err[i]
  BY DEF ConnectionBreaks, Goto
<1>2. /\ pc[i] \in {"lock", "done"} \cup Holding /\ Abandon(i) /\ faulted' = TRUE
      /\ UNCHANGED <<build, todo, cur, seen, err, schema, starts, started>>
  BY DEF ConnectionBreaks, Holding
<1> QED BY <1>1, <1>2, AbandonInd

LEMMA DieInd ==
  ASSUME IndInv, NEW i \in Instances, Die(i)
  PROVE  IndInv'
BY AbandonInd DEF Die, Goto

(* The server's own steps. *)
LEMMA GhostCommitsInd ==
  ASSUME IndInv, GhostCommits
  PROVE  IndInv'
<1>1. /\ ghost # None /\ Committed(ghost) /\ ghost' = None
      /\ UNCHANGED <<local, holder, strays, history>>
  BY DEF GhostCommits
<1>2. ghost \in File /\ holder = Ghost /\ rows[ghost.version] = None
  BY <1>1 DEF IndInv, TypeOK, OneHolder, GhostCurrent
<1>3. PICK b \in started :
        /\ Valid(b) /\ ghost \in b
        /\ \A g \in b : g.version < ghost.version => rows[g.version] # None
  BY <1>1 DEF IndInv, GhostCurrent
<1>4. PICK f \in File : f = ghost
  BY <1>2
<1>5. /\ rows' \in [Versions -> Checksums \cup {None}] /\ ran' \in [Versions -> Nat]
      /\ \A v \in Versions : rows[v] # None => rows'[v] = rows[v]
      /\ RecordedIffRan' /\ GapsComeFromBuilds'
  <2>1. Committed(f) /\ rows[f.version] = None /\ f \in b /\ UNCHANGED <<started>>
        /\ \A g \in b : g.version < f.version => rows[g.version] # None
    BY <1>1, <1>2, <1>3, <1>4 DEF history
  <2> QED BY <1>3, <2>1, CommitStores
<1>6. OneHolder' /\ GhostCurrent'
  BY <1>1 DEF IndInv, OneHolder, GhostCurrent, local
<1>7. InstancesSound'
  <2>1. ASSUME NEW j \in Instances PROVE InstanceSound(j)'
    <3>1. pc[j] \notin Looping
      BY <1>2, MigrationsAssumption DEF IndInv, OneHolder, Holding, Working, Looping
    <3> QED BY <1>1, <1>5, <3>1, StaysSound DEF local, history
  <2> QED BY <2>1 DEF InstancesSound
<1>8. TypeOK'
  BY <1>1, <1>5 DEF IndInv, TypeOK, Committed, local, history
<1> QED BY <1>5, <1>6, <1>7, <1>8 DEF IndInv

LEMMA ServerInd ==
  ASSUME IndInv, GhostEnds \/ StrayLocks \/ StrayEnds
  PROVE  IndInv'
<1>1. /\ UNCHANGED <<local, schema, history>> /\ ghost' \in {ghost, None}
      /\ holder' \in {holder, None, Ghost}
  BY DEF GhostEnds, StrayLocks, StrayEnds
<1>2. strays' \in Nat
  BY DEF GhostEnds, StrayLocks, StrayEnds, IndInv, TypeOK
<1>3. OneHolder'
  BY MigrationsAssumption DEF GhostEnds, StrayLocks, StrayEnds, IndInv, TypeOK, OneHolder, local
<1>4. InstancesSound'
  <2>1. ASSUME NEW j \in Instances PROVE InstanceSound(j)'
    BY <1>1, StaysSound DEF local, schema, history
  <2> QED BY <2>1 DEF InstancesSound
<1>5. TypeOK'
  BY <1>1, <1>2 DEF IndInv, TypeOK, local, schema, history
<1>6. GhostCurrent' /\ RecordedIffRan' /\ GapsComeFromBuilds'
  BY <1>1, <1>3, <1>4, SchemaUnchanged DEF history
<1> QED BY <1>3, <1>4, <1>5, <1>6 DEF IndInv

-------------------------------------------------------------------------------
(* Theorems. *)

LEMMA NextInd == IndInv /\ [Next]_vars => IndInv'
<1> SUFFICES ASSUME IndInv, [Next]_vars PROVE IndInv' OBVIOUS
<1>1. ASSUME NEW i \in Instances, NEW b \in Builds, Start(i, b) PROVE IndInv'
  BY <1>1, StartInd
<1>2. ASSUME NEW i \in Instances, Step(i) PROVE IndInv'
  BY <1>2, EnsureInd, ReadInd, NextFileInd, RunBodyInd, RecordInd, CommitInd, UnlockInd DEF Step
<1>3. ASSUME NEW i \in Instances, Lock(i) \/ StatementFails(i) \/ ConnectionBreaks(i) \/ Die(i)
      PROVE  IndInv'
  BY <1>3, LockInd, StatementFailsInd, ConnectionBreaksInd, DieInd
<1>4. CASE UNCHANGED vars
  <2>1. UNCHANGED <<local, holder, ghost, strays, schema, history>>
    BY <1>4 DEF vars
  <2>2. TypeOK' /\ OneHolder'
    BY <2>1 DEF IndInv, TypeOK, OneHolder, local, schema, history
  <2>3. InstancesSound'
    <3>1. ASSUME NEW j \in Instances PROVE InstanceSound(j)'
      BY <2>1, StaysSound DEF local, schema, history
    <3> QED BY <3>1 DEF InstancesSound
  <2>4. GhostCurrent' /\ RecordedIffRan' /\ GapsComeFromBuilds'
    BY <2>1, <2>2, <2>3, SchemaUnchanged DEF history
  <2> QED BY <2>2, <2>3, <2>4 DEF IndInv
<1> QED BY <1>1, <1>2, <1>3, <1>4, GhostCommitsInd, ServerInd DEF Next

(* IndInv holds whatever instances start, race, break and die.             *)
THEOREM Invariance == Spec => []IndInv
BY InitInd, NextInd, PTL DEF Spec

(* A file took effect exactly once if its version is recorded, and not at  *)
(* all otherwise: applyMigration is atomic, also when the answer of its    *)
(* COMMIT is lost and another instance takes over.                         *)
THEOREM AppliedOnce == Spec => []RecordedIffRan
<1>1. IndInv => RecordedIffRan
  BY DEF IndInv
<1> QED BY <1>1, Invariance, PTL

(* No run of Migrate, interrupted or resumed by another build, skips a     *)
(* version its own build has.                                              *)
THEOREM InVersionOrder == Spec => []GapsComeFromBuilds
<1>1. IndInv => GapsComeFromBuilds
  BY DEF IndInv
<1> QED BY <1>1, Invariance, PTL

(* Instances that got past Migrate agree on every version they share.      *)
THEOREM ServersShareSchema == Spec => []ServersAgree
<1>1. IndInv => ServersAgree
  <2> SUFFICES ASSUME IndInv, NEW i \in Instances, NEW j \in Instances,
                      pc[i] = "done", pc[j] = "done",
                      NEW f \in build[i], NEW g \in build[j], f.version = g.version
               PROVE  f = g
    BY DEF ServersAgree
  <2>1. rows[f.version] = f.checksum /\ rows[g.version] = g.checksum
    BY DEF IndInv, InstancesSound, InstanceSound, Succeeding
  <2>2. f \in File /\ g \in File
    BY DEF IndInv, TypeOK
  <2> QED BY <2>1, <2>2 DEF File
<1> QED BY <1>1, Invariance, PTL

-------------------------------------------------------------------------------
(* Until something breaks, an instance that fails, or is about to, has     *)
(* itself to blame.                                                        *)
FailsExplained == ~faulted => \A i \in Instances : pc[i] = "failed" \/ err[i] => OwnFault(i)

(* Recorded checksums stay, so a reason to fail stays one.                 *)
LEMMA OwnFaultStays ==
  ASSUME IndInv, IndInv', NEW j \in Instances, OwnFault(j), build'[j] = build[j],
         \A v \in Versions : rows[v] # None => rows'[v] = rows[v]
  PROVE  OwnFault(j)'
<1>1. \A f \in build[j] : f.version \in Versions
  BY DEF IndInv, TypeOK, File
<1> QED BY <1>1 DEF OwnFault, Valid

LEMMA RowsStay ==
  ASSUME IndInv, [Next]_vars, NEW v \in Versions, rows[v] # None
  PROVE  rows'[v] = rows[v]
<1>1. ASSUME NEW f, Committed(f), rows[f.version] = None PROVE rows'[v] = rows[v]
  BY <1>1 DEF Committed, IndInv, TypeOK
<1>2. ASSUME NEW i \in Instances, Commit(i) PROVE rows'[v] = rows[v]
  <2>1. Committed(cur[i]) /\ rows[cur[i].version] = None
    BY <1>2 DEF Commit, IndInv, InstancesSound, InstanceSound
  <2> QED BY <1>1, <2>1
<1>3. CASE GhostCommits
  <2>1. Committed(ghost) /\ rows[ghost.version] = None
    BY <1>3 DEF GhostCommits, IndInv, GhostCurrent
  <2> QED BY <1>1, <2>1
<1>4. ASSUME NEW i \in Instances, Step(i), ~Commit(i) PROVE rows' = rows
  BY <1>4 DEF Step, EnsureTable, ReadApplied, NextFile, RunBody, Record, Unlock, schema
<1>5. ASSUME NEW i \in Instances, NEW b, Start(i, b) PROVE rows' = rows
  BY <1>5 DEF Start, schema
<1>6. ASSUME NEW i \in Instances, Lock(i) \/ StatementFails(i) \/ ConnectionBreaks(i) \/ Die(i)
      PROVE  rows' = rows
  BY <1>6 DEF Lock, StatementFails, ConnectionBreaks, Die, schema
<1>7. CASE GhostEnds \/ StrayLocks \/ StrayEnds \/ UNCHANGED vars
  BY <1>7 DEF GhostEnds, StrayLocks, StrayEnds, vars, schema
<1> QED BY <1>2, <1>3, <1>4, <1>5, <1>6, <1>7 DEF Next

LEMMA ExplainedInd ==
  ASSUME IndInv, IndInv', FailsExplained, [Next]_vars
  PROVE  FailsExplained'
<1> SUFFICES ASSUME ~faulted', NEW j \in Instances, pc'[j] = "failed" \/ err'[j]
             PROVE  OwnFault(j)'
  BY DEF FailsExplained
<1>1. ASSUME build'[j] = build[j], ~faulted, pc[j] = "failed" \/ err[j] PROVE OwnFault(j)'
  <2>1. OwnFault(j)
    BY <1>1 DEF FailsExplained
  <2> QED BY <1>1, <2>1, RowsStay, OwnFaultStays
<1>2. ASSUME UNCHANGED <<pc, err, build, faulted>> PROVE OwnFault(j)'
  BY <1>1, <1>2
<1>3. ASSUME NEW i \in Instances, NEW b \in Builds, Start(i, b) PROVE OwnFault(j)'
  <2>1. /\ pc' = [pc EXCEPT ![i] = IF Valid(b) THEN "lock" ELSE "failed"]
        /\ build' = [build EXCEPT ![i] = b] /\ err' = [err EXCEPT ![i] = FALSE]
        /\ faulted' = faulted
    BY <1>3 DEF Start, Goto
  <2>2. CASE j = i
    <3>1. build'[j] = b /\ ~Valid(b)
      BY <2>1, <2>2 DEF IndInv, TypeOK
    <3> QED BY <3>1 DEF OwnFault, Valid
  <2>3. CASE j # i
    BY <1>1, <2>1, <2>3 DEF IndInv, TypeOK
  <2> QED BY <2>2, <2>3
<1>4. ASSUME NEW i \in Instances, Lock(i) \/ EnsureTable(i) \/ ReadApplied(i)
                                  \/ Record(i) \/ Commit(i)
      PROVE  OwnFault(j)'
  <2>1. PICK p \in {"ensure", "read", "next", "commit"} : pc' = [pc EXCEPT ![i] = p]
    BY <1>4 DEF Lock, EnsureTable, ReadApplied, Record, Commit, Goto
  <2>2. UNCHANGED <<build, err, faulted>>
    BY <1>4 DEF Lock, EnsureTable, ReadApplied, Record, Commit, schema, history
  <2> QED BY <1>1, <2>1, <2>2 DEF IndInv, TypeOK
<1>5. ASSUME NEW i \in Instances, NextFile(i) PROVE OwnFault(j)'
  <2>1. UNCHANGED <<build, rows, faulted>> /\ pc[i] = "next"
    BY <1>5 DEF NextFile, schema, history
  <2>2. ASSUME NEW p \in {"unlock", "next", "body"}, pc' = [pc EXCEPT ![i] = p], err' = err
        PROVE  OwnFault(j)'
    BY <1>1, <2>1, <2>2 DEF IndInv, TypeOK
  <2>3. ASSUME NEW f \in todo[i], Refuse(i, f) PROVE OwnFault(j)'
    <3>1. /\ seen[i][f.version] \notin {None, f.checksum}
          /\ pc' = [pc EXCEPT ![i] = "unlock"] /\ err' = [err EXCEPT ![i] = TRUE]
      BY <2>3 DEF Refuse, Abort, Goto
    <3>2. CASE j = i
      <4>1. /\ f \in build[i] /\ rows[f.version] = seen[i][f.version]
        BY <2>1 DEF IndInv, InstancesSound, InstanceSound, Holding, Looping
      <4> QED BY <2>1, <3>1, <3>2, <4>1 DEF OwnFault
    <3>3. CASE j # i
      BY <1>1, <2>1, <3>1, <3>3 DEF IndInv, TypeOK
    <3> QED BY <3>2, <3>3
  <2>4. CASE todo[i] = {} /\ Goto(i, "unlock") /\ UNCHANGED <<todo, cur, err>>
    BY <2>2, <2>4 DEF Goto
  <2>5. ASSUME NEW f \in todo[i], Skip(i, f) PROVE OwnFault(j)'
    <3>1. pc' = [pc EXCEPT ![i] = "next"] /\ err' = err
      BY <2>1, <2>5 DEF Skip, IndInv, TypeOK
    <3> QED BY <2>2, <3>1
  <2>6. ASSUME NEW f \in todo[i], Begin(i, f) PROVE OwnFault(j)'
    BY <2>2, <2>6 DEF Begin, Goto
  <2> QED BY <1>5, <2>3, <2>4, <2>5, <2>6 DEF NextFile
<1>6. ASSUME NEW i \in Instances, RunBody(i) PROVE OwnFault(j)'
  <2>1. UNCHANGED <<build, rows, faulted>> /\ pc[i] = "body"
    BY <1>6 DEF RunBody, schema, history
  <2>2. CASE cur[i].checksum \in Broken /\ Abort(i)
    <3>1. pc' = [pc EXCEPT ![i] = "unlock"] /\ err' = [err EXCEPT ![i] = TRUE]
      BY <2>2 DEF Abort, Goto
    <3>2. CASE j = i
      <4>1. cur[i] \in build[i]
        BY <2>1 DEF IndInv, InstancesSound, InstanceSound, Holding, Working, Lowest
      <4> QED BY <2>1, <2>2, <3>2, <4>1 DEF OwnFault
    <3>3. CASE j # i
      BY <1>1, <2>1, <3>1, <3>3 DEF IndInv, TypeOK
    <3> QED BY <3>2, <3>3
  <2>3. CASE Goto(i, "record") /\ UNCHANGED err
    BY <1>1, <2>1, <2>3 DEF Goto, IndInv, TypeOK
  <2> QED BY <1>6, <2>2, <2>3 DEF RunBody
<1>7. ASSUME NEW i \in Instances, Unlock(i) PROVE OwnFault(j)'
  <2>1. /\ pc' = [pc EXCEPT ![i] = IF err[i] THEN "failed" ELSE "done"]
        /\ UNCHANGED <<build, err, faulted>>
    BY <1>7 DEF Unlock, Goto, history
  <2> QED BY <1>1, <2>1 DEF IndInv, TypeOK
<1>8. ASSUME NEW i \in Instances, StatementFails(i) \/ ConnectionBreaks(i) \/ Die(i) PROVE FALSE
  BY <1>8 DEF StatementFails, ConnectionBreaks, Die
<1>9. CASE GhostCommits \/ GhostEnds \/ StrayLocks \/ StrayEnds \/ UNCHANGED vars
  <2>1. UNCHANGED <<pc, err, build, faulted>>
    BY <1>9 DEF GhostCommits, GhostEnds, StrayLocks, StrayEnds, vars, local, history
  <2> QED BY <1>2, <2>1
<1> QED BY <1>3, <1>4, <1>5, <1>6, <1>7, <1>8, <1>9 DEF Next, Step

(* Several instances may start together: until a statement, a connection   *)
(* or a process fails, none fails because of another one.                  *)
THEOREM ConcurrentStartsSucceed == Spec => []StartsFailAlone
<1>1. Init => FailsExplained
  BY DEF Init, FailsExplained
<1>2. FailsExplained => StartsFailAlone
  BY DEF FailsExplained, StartsFailAlone
<1>3. IndInv /\ IndInv' /\ FailsExplained /\ [Next]_vars => FailsExplained'
  BY ExplainedInd
<1> QED BY <1>1, <1>2, <1>3, Invariance, PTL DEF Spec

-------------------------------------------------------------------------------
(* Migrations implements MigrationLog. *)

(* A commit of a started build's file appends it to the log.               *)
LEMMA CommitApplies ==
  ASSUME IndInv, NEW b \in started, NEW f \in b, Committed(f), rows[f.version] = None,
         Serving' = Serving
  PROVE  Log!LogNext
<1>1. Log!Apply(f) /\ b \in Builds
  BY DEF Log!Apply, Committed, IndInv, TypeOK
<1> QED BY <1>1 DEF Log!LogNext

(* Only an instance that leaves or reaches "done" changes who serves.      *)
LEMMA ServingStays ==
  ASSUME IndInv, NEW i \in Instances, NEW p, pc' = [pc EXCEPT ![i] = p],
         pc[i] # "done", p # "done",
         \A j \in Instances : j # i => build'[j] = build[j]
  PROVE  Serving' = Serving
<1>1. \A j \in Instances : j # i => pc'[j] = pc[j]
  BY DEF IndInv, TypeOK
<1>2. pc'[i] # "done"
  BY DEF IndInv, TypeOK
<1>3. \A j \in Instances :
        (IF pc'[j] = "done" THEN build'[j] ELSE None) = (IF pc[j] = "done" THEN build[j] ELSE None)
  BY <1>1, <1>2
<1> QED BY <1>3 DEF Serving

LEMMA LogStep ==
  ASSUME IndInv, [Next]_vars
  PROVE  Log!LogNext \/ UNCHANGED <<rows, Serving>>
<1>1. ASSUME NEW i \in Instances, NEW b \in Builds, Start(i, b)
      PROVE  UNCHANGED <<rows, Serving>>
  <2>1. /\ rows' = rows /\ pc[i] # "done"
        /\ pc' = [pc EXCEPT ![i] = IF Valid(b) THEN "lock" ELSE "failed"]
        /\ \A j \in Instances : j # i => build'[j] = build[j]
    BY <1>1 DEF Start, Goto, schema, IndInv, TypeOK
  <2> QED BY <2>1, ServingStays
<1>2. ASSUME NEW i \in Instances, Lock(i) \/ EnsureTable(i) \/ ReadApplied(i) \/ RunBody(i)
                                  \/ Record(i) \/ StatementFails(i) \/ NextFile(i)
      PROVE  UNCHANGED <<rows, Serving>>
  <2>1. UNCHANGED <<rows, build>> /\ pc[i] # "done"
    BY <1>2 DEF Lock, EnsureTable, ReadApplied, RunBody, Record, StatementFails, NextFile,
                Working, schema
  <2>2. \E p : p # "done" /\ pc' = [pc EXCEPT ![i] = p]
    <3>1. CASE NextFile(i)
      <4>1. pc[i] = "next"
        BY <3>1 DEF NextFile
      <4>2. pc' = pc \/ Goto(i, "unlock") \/ Goto(i, "body")
        BY <3>1 DEF NextFile, Skip, Refuse, Begin, Abort
      <4>3. pc = [pc EXCEPT ![i] = "next"]
        BY <4>1 DEF IndInv, TypeOK
      <4> QED BY <4>2, <4>3 DEF Goto
    <3> QED BY <1>2, <3>1 DEF Lock, EnsureTable, ReadApplied, RunBody, Record, StatementFails,
                              Abort, Goto
  <2> QED BY <2>1, <2>2, ServingStays
<1>3. ASSUME NEW i \in Instances, Commit(i) PROVE Log!LogNext
  <2>1. /\ Committed(cur[i]) /\ pc[i] = "commit" /\ pc' = [pc EXCEPT ![i] = "next"]
        /\ build' = build
    BY <1>3 DEF Commit, Goto
  <2>2. /\ rows[cur[i].version] = None /\ cur[i] \in build[i] /\ build[i] \in started
    BY <2>1 DEF IndInv, InstancesSound, InstanceSound, Holding, Working, Lowest
  <2>3. Serving' = Serving
    BY <2>1, ServingStays
  <2> QED BY <2>1, <2>2, <2>3, CommitApplies
<1>4. ASSUME NEW i \in Instances, Unlock(i) \/ ConnectionBreaks(i)
      PROVE  Log!LogNext \/ UNCHANGED <<rows, Serving>>
  <2>1. UNCHANGED <<rows, build>> /\ pc[i] # "done"
    BY <1>4 DEF Unlock, ConnectionBreaks, Working, schema
  <2>2. PICK p \in {"done", "failed"} :
          pc' = [pc EXCEPT ![i] = p] /\ (p = "done" => pc[i] = "unlock" /\ ~err[i])
    BY <1>4 DEF Unlock, ConnectionBreaks, Goto
  <2>3. CASE p = "failed"
    BY <2>1, <2>2, <2>3, ServingStays
  <2>4. CASE p = "done"
    <3>1. \A f \in build[i] : rows[f.version] = f.checksum
      BY <2>2, <2>4 DEF IndInv, InstancesSound, InstanceSound, Succeeding
    <3>2. build[i] \in Builds
      BY <2>2, <2>4 DEF IndInv, TypeOK, InstancesSound, InstanceSound, Holding
    <3>3. Serving' = [Serving EXCEPT ![i] = build[i]]
      BY <2>1, <2>2, <2>4 DEF Serving, IndInv, TypeOK
    <3>4. Log!Serve(i, build[i])
      BY <2>1, <3>1, <3>3 DEF Log!Serve
    <3> QED BY <3>2, <3>4 DEF Log!LogNext
  <2> QED BY <2>3, <2>4
<1>5. ASSUME NEW i \in Instances, Die(i) PROVE Log!LogNext \/ UNCHANGED <<rows, Serving>>
  <2>1. UNCHANGED <<rows, build>> /\ pc' = [pc EXCEPT ![i] = "off"]
    BY <1>5 DEF Die, Goto, schema
  <2>2. Serving' = [Serving EXCEPT ![i] = None]
    BY <2>1 DEF Serving, IndInv, TypeOK
  <2>3. Log!Stop(i)
    BY <2>1, <2>2 DEF Log!Stop
  <2> QED BY <2>3 DEF Log!LogNext
<1>6. CASE GhostCommits
  <2>1. Committed(ghost) /\ ghost # None /\ UNCHANGED <<pc, build>>
    BY <1>6 DEF GhostCommits, local
  <2>2. rows[ghost.version] = None /\ \E b \in started : ghost \in b
    BY <2>1 DEF IndInv, GhostCurrent
  <2>3. Serving' = Serving
    BY <2>1 DEF Serving
  <2> QED BY <2>1, <2>2, <2>3, CommitApplies
<1>7. CASE GhostEnds \/ StrayLocks \/ StrayEnds \/ UNCHANGED vars
  BY <1>7 DEF GhostEnds, StrayLocks, StrayEnds, vars, local, schema, Serving
<1> QED BY <1>1, <1>2, <1>3, <1>4, <1>5, <1>6, <1>7 DEF Next, Step

(* Migrate keeps the promise of MigrationLog: each version gets one        *)
(* content once and for good, and an instance serves only on a schema that *)
(* has every file of its build.                                            *)
THEOREM MigrateImplementsLog == Spec => MigrateKeepsLog
<1>1. Init => Log!LogInit
  BY DEF Init, Log!LogInit, Serving
<1>2. IndInv /\ [Next]_vars => [Log!LogNext]_(Log!logVars)
  BY LogStep DEF Log!logVars
<1> QED BY <1>1, <1>2, Invariance, PTL DEF Spec, MigrateKeepsLog, Log!LogSpec
===============================================================================
