------------------------ MODULE RevisionStoreProofs ------------------------
(***************************************************************************)
(* The safety of RevisionStore for any number of processes, any records    *)
(* and any revision limit.                                                 *)
(***************************************************************************)
EXTENDS RevisionStore, SequenceTheorems, TLAPS

-----------------------------------------------------------------------------
(* Chains and the directories that hold them.                              *)

\* The prefixes of a chain are sequences of the lengths 1 to its length.
LEMMA PrefixFacts ==
    ASSUME NEW s \in Seq(Records), NEW n \in 1..Len(s)
    PROVE  /\ SubSeq(s, 1, n) \in Seq(Records)
           /\ Len(SubSeq(s, 1, n)) = n
           /\ \A i \in 1..n : SubSeq(s, 1, n)[i] = s[i]
           /\ SubSeq(s, 1, n) # << >>
<1>1. \A i \in 1..n : s[i] \in Records
  BY ElementOfSeq, LenProperties
<1>2. /\ SubSeq(s, 1, n) \in Seq(Records)
      /\ Len(SubSeq(s, 1, n)) = IF 1 <= n THEN n - 1 + 1 ELSE 0
      /\ \A i \in 1..(n - 1 + 1) : SubSeq(s, 1, n)[i] = s[1 + i - 1]
  BY <1>1, SubSeqProperties, LenProperties
<1>3. n \in Nat /\ n >= 1
  BY LenProperties
<1>4. Len(SubSeq(s, 1, n)) = n
  BY <1>2, <1>3
<1>5. \A i \in 1..n : SubSeq(s, 1, n)[i] = s[i]
  BY <1>2, <1>3
<1>6. SubSeq(s, 1, n) # << >>
  BY <1>4, <1>3, EmptySeq
<1>. QED BY <1>2, <1>4, <1>5, <1>6

\* The longest revision a scan of a whole chain meets is the chain itself.
LEMMA LatestOfPrefixes ==
    ASSUME NEW s \in Seq(Records)
    PROVE  LatestOf(PrefixesOf(s)) = s
<1>. DEFINE F == PrefixesOf(s)
<1>0. Len(s) \in Nat
  BY LenProperties
<1>1. s \in F \cup {<< >>}
  <2>1. CASE s = << >>
    BY <2>1
  <2>2. CASE s # << >>
    <3>1. Len(s) \in 1..Len(s)
      BY <2>2, EmptySeq
    <3>2. SubSeq(s, 1, Len(s)) = s
      BY SubSeqFull
    <3>. QED BY <3>1, <3>2 DEF PrefixesOf
  <2>. QED BY <2>1, <2>2
<1>2. \A t \in F : Len(t) <= Len(s)
  BY <1>0, PrefixFacts DEF PrefixesOf
<1>3. ASSUME NEW t \in F \cup {<< >>}, \A u \in F : Len(u) <= Len(t)
      PROVE  t = s
  <2>1. CASE s = << >>
    <3>1. F = {}
      BY <2>1, EmptySeq DEF PrefixesOf
    <3>. QED BY <3>1, <2>1
  <2>2. CASE s # << >>
    <3>1. s \in F /\ Len(s) >= 1
      BY <1>1, <2>2, <1>0, EmptySeq
    <3>2. Len(s) <= Len(t)
      BY <3>1, <1>3
    <3>3. t # << >>
      BY <3>1, <3>2, EmptySeq
    <3>4. PICK n \in 1..Len(s) : t = SubSeq(s, 1, n)
      BY <1>3, <3>3 DEF PrefixesOf
    <3>5. Len(t) = n
      BY <3>4, PrefixFacts
    <3>6. n = Len(s)
      BY <3>2, <3>5, <1>0
    <3>. QED BY <3>4, <3>6, SubSeqFull
  <2>. QED BY <2>1, <2>2
<1>. QED BY <1>1, <1>2, <1>3 DEF LatestOf

\* Publishing after a chain adds exactly one file to its directory.
LEMMA PrefixesOfAppend ==
    ASSUME NEW s \in Seq(Records), NEW r \in Records
    PROVE  PrefixesOf(Append(s, r)) = PrefixesOf(s) \cup {Append(s, r)}
<1>. DEFINE t == Append(s, r)
<1>1. /\ t \in Seq(Records)
      /\ Len(t) = Len(s) + 1
      /\ \A i \in 1..Len(s) : t[i] = s[i]
  BY AppendProperties
<1>2. Len(s) \in Nat
  BY LenProperties
<1>3. SubSeq(t, 1, Len(t)) = t
  BY <1>1, SubSeqFull
<1>4. ASSUME NEW n \in 1..Len(s)
      PROVE  SubSeq(t, 1, n) = SubSeq(s, 1, n)
  <2>1. n \in 1..Len(t)
    BY <1>1, <1>2
  <2>2. /\ SubSeq(t, 1, n) \in Seq(Records)
        /\ Len(SubSeq(t, 1, n)) = n
        /\ \A i \in 1..n : SubSeq(t, 1, n)[i] = t[i]
    BY <2>1, <1>1, PrefixFacts
  <2>3. /\ SubSeq(s, 1, n) \in Seq(Records)
        /\ Len(SubSeq(s, 1, n)) = n
        /\ \A i \in 1..n : SubSeq(s, 1, n)[i] = s[i]
    BY PrefixFacts
  <2>4. \A i \in 1..n : t[i] = s[i]
    BY <1>1, <1>2
  <2>. QED BY <2>2, <2>3, <2>4, SeqEqual
<1>5. 1..Len(t) = 1..Len(s) \cup {Len(t)}
  BY <1>1, <1>2
<1>. QED BY <1>3, <1>4, <1>5 DEF PrefixesOf

\* A chain stays valid when a valid successor is appended.
LEMMA ValidChainAppend ==
    ASSUME NEW s \in Seq(Records), NEW r \in Records, ValidChain(s),
           s # << >> => ValidSuccessor(s[Len(s)], r)
    PROVE  ValidChain(Append(s, r))
<1>. DEFINE t == Append(s, r)
<1>1. /\ Len(t) = Len(s) + 1
      /\ \A i \in 1..Len(s) : t[i] = s[i]
      /\ t[Len(s) + 1] = r
  BY AppendProperties
<1>2. Len(s) \in Nat
  BY LenProperties
<1>3. ASSUME NEW n \in 1..(Len(t) - 1)
      PROVE  ValidSuccessor(t[n], t[n + 1])
  <2>1. n \in 1..Len(s)
    BY <1>1, <1>2
  <2>2. CASE n = Len(s)
    <3>1. s # << >>
      BY <2>1, EmptySeq
    <3>2. t[n] = s[Len(s)] /\ t[n + 1] = r
      BY <2>1, <2>2, <1>1
    <3>. QED BY <3>1, <3>2
  <2>3. CASE n # Len(s)
    <3>1. n \in 1..(Len(s) - 1) /\ n + 1 \in 1..Len(s)
      BY <2>1, <2>3, <1>2
    <3>2. t[n] = s[n] /\ t[n + 1] = s[n + 1]
      BY <3>1, <2>1, <1>1
    <3>. QED BY <3>1, <3>2 DEF ValidChain
  <2>. QED BY <2>2, <2>3
<1>. QED BY <1>3 DEF ValidChain

-----------------------------------------------------------------------------
(* The inductive invariant.                                                *)

\* A directory whose files are exactly the revisions of one valid chain.
HoldsChain(F) == \E s \in Chains : IsChainOf(F, s)

\* Only the holder of the job lock is past the lock step.
Exclusive == \A p \in Procs : pc[p] \notin {"idle", "lock"} => lock = p

\* Everything a power loss can leave is readable, holds every acknowledged
\* revision and nothing that is not visible now.
DiskOK ==
    /\ Here(files, staging) \in images
    /\ \A d \in images : /\ HoldsChain(d.files)
                         /\ RecoverableStaging(d)
                         /\ acked \subseteq d.files
                         /\ d.files \subseteq files

\* The file a publication is about to link extends the visible chain.
Extends(t) ==
    \E r \in Records : /\ t = Append(Latest, r)
                       /\ Latest # << >> => ValidSuccessor(Latest[Len(Latest)], r)

StepOK(p) ==
    /\ pc[p] # "idle" => op[p] \in Operations
    /\ pc[p] \in {"stage", "write", "link"} =>
           Extends(target[p]) /\ Len(Latest) < MaxRevisions
    /\ pc[p] = "write" => staging = StagedAs(p, FALSE, FALSE)
    /\ pc[p] = "link" => staging = StagedAs(p, TRUE, FALSE)
    /\ pc[p] \in {"flush", "unlink"} => staging = StagedAs(p, TRUE, TRUE)
    /\ pc[p] \in {"flush", "unlink", "readBack", "syncDirectory", "durable"} =>
           target[p] = Latest /\ target[p] # << >>
    /\ mode[p] = "settle" => target[p] # << >>
    /\ pc[p] = "confirm" => mode[p] = "settle"

IInv == TypeOK /\ Exclusive /\ DiskOK /\ \A p \in Procs : StepOK(p)

\* A directory that holds a chain holds the chain of its latest revision.
LEMMA ChainOfLatest ==
    ASSUME NEW F, HoldsChain(F)
    PROVE  /\ LatestOf(F) \in Chains
           /\ IsChainOf(F, LatestOf(F))
           /\ LatestOf(F) # << >> => LatestOf(F) \in F
           /\ F # {} => LatestOf(F) # << >>
           /\ << >> \notin F
<1>1. PICK s \in Chains : IsChainOf(F, s)
  BY DEF HoldsChain
<1>2. s \in Seq(Records)
  BY DEF Chains
<1>3. LatestOf(F) = s
  BY <1>1, <1>2, LatestOfPrefixes DEF IsChainOf
<1>4. s # << >> => s \in F
  <2>. SUFFICES ASSUME s # << >> PROVE s \in PrefixesOf(s)
    BY <1>1 DEF IsChainOf
  <2>1. Len(s) \in 1..Len(s)
    BY <1>2, EmptySeq, LenProperties
  <2>. QED BY <2>1, <1>2, SubSeqFull DEF PrefixesOf
<1>5. F # {} => s # << >>
  BY <1>1, EmptySeq DEF IsChainOf, PrefixesOf
<1>6. << >> \notin F
  BY <1>1, <1>2, PrefixFacts DEF IsChainOf, PrefixesOf
<1>. QED BY <1>1, <1>3, <1>4, <1>5, <1>6

\* What LinkFinal makes visible is the chain one revision longer.
LEMMA LinkedChain ==
    ASSUME HoldsChain(files), NEW t, Extends(t), Len(Latest) < MaxRevisions,
           MaxRevisions \in Nat
    PROVE  /\ t \in Revisions
           /\ HoldsChain(files \cup {t})
           /\ LatestOf(files \cup {t}) = t
<1>1. Latest \in Chains /\ IsChainOf(files, Latest)
  BY ChainOfLatest DEF Latest
<1>2. PICK r \in Records : /\ t = Append(Latest, r)
                           /\ Latest # << >> => ValidSuccessor(Latest[Len(Latest)], r)
  BY DEF Extends
<1>3. Latest \in Seq(Records) /\ Len(Latest) \in Nat
  BY <1>1, LenProperties DEF Chains
<1>4. t \in Seq(Records) /\ t # << >> /\ Len(t) = Len(Latest) + 1
  BY <1>2, <1>3, AppendProperties
<1>5. t \in Chains
  BY <1>3, <1>4 DEF Chains
<1>6. files \cup {t} = PrefixesOf(t)
  BY <1>1, <1>2, <1>3, PrefixesOfAppend DEF IsChainOf
<1>7. ValidChain(t)
  BY <1>1, <1>2, <1>3, ValidChainAppend DEF IsChainOf
<1>8. HoldsChain(files \cup {t})
  BY <1>5, <1>6, <1>7 DEF HoldsChain, IsChainOf
<1>9. LatestOf(files \cup {t}) = t
  BY <1>4, <1>6, LatestOfPrefixes
<1>. QED BY <1>4, <1>5, <1>8, <1>9 DEF Revisions

-----------------------------------------------------------------------------
(* The invariant is preserved.                                             *)

\* Initially the directory is empty and everyone is idle.
LEMMA InitIInv == Init => IInv
<1>. SUFFICES ASSUME Init PROVE IInv
  OBVIOUS
<1>. USE DEF Init
<1>1. << >> \in Chains /\ IsChainOf({}, << >>)
  BY EmptySeq, MaxRevisionsAssumption DEF Chains, IsChainOf, PrefixesOf, ValidChain
<1>2. HoldsChain({})
  BY <1>1 DEF HoldsChain
<1>3. TypeOK
  BY <1>1 DEF TypeOK, Here, Directories, Steps
<1>4. Exclusive
  BY DEF Exclusive
<1>5. DiskOK
  BY <1>2 DEF DiskOK, Here, RecoverableStaging
<1>6. \A p \in Procs : StepOK(p)
  BY DEF StepOK
<1>. QED BY <1>3, <1>4, <1>5, <1>6 DEF IInv

\* A step that ends the operation of p and leaves the directory alone.
LEMMA ReturnKeepsIInv ==
    ASSUME IInv, NEW p \in Procs, Return(p), UNCHANGED acked, KeepDirectory
    PROVE  IInv'
<1>. USE DEF IInv, Return, Goto, KeepDirectory
<1>1. << >> \in Chains
  BY EmptySeq, MaxRevisionsAssumption DEF Chains
<1>2. TypeOK'
  BY <1>1 DEF TypeOK, Steps
<1>3. Exclusive'
  BY NoProcAssumption DEF Exclusive, TypeOK
<1>4. DiskOK'
  BY DEF DiskOK, Here
<1>5. (\A q \in Procs : StepOK(q))'
  BY DEF StepOK, TypeOK, Extends, Latest, StagedAs
<1>. QED BY <1>2, <1>3, <1>4, <1>5

\* A step of the operation that only moves p on.
LEMMA MoveKeepsIInv ==
    ASSUME IInv, NEW p \in Procs, NEW step \in Steps, Goto(p, step), KeepCall,
           KeepDirectory, StepOK(p)', step \in {"idle", "lock"} \/ lock = p
    PROVE  IInv'
<1>. USE DEF IInv, Goto, KeepDirectory, KeepCall
<1>1. TypeOK'
  BY DEF TypeOK
<1>2. Exclusive'
  BY DEF Exclusive, TypeOK
<1>3. DiskOK'
  BY DEF DiskOK, Here
<1>4. (\A q \in Procs : StepOK(q))'
  BY DEF StepOK, TypeOK, Extends, Latest, StagedAs
<1>. QED BY <1>1, <1>2, <1>3, <1>4

\* A visible directory change by the lock holder.
LEMMA ChangeKeepsDiskOK ==
    ASSUME IInv, NEW F, NEW s, ChangeDirectory(F, s), UNCHANGED acked,
           HoldsChain(F), RecoverableStaging(Here(F, s)), files \subseteq F
    PROVE  DiskOK'
<1>. USE DEF IInv, ChangeDirectory
<1>1. Here(files, staging)' \in images'
  BY DEF Here
<1>2. acked \subseteq files
  BY DEF DiskOK, Here
<1>3. ASSUME NEW d \in images'
      PROVE  /\ HoldsChain(d.files) /\ RecoverableStaging(d)
             /\ acked' \subseteq d.files /\ d.files \subseteq files'
  <2>1. CASE d \in images
    BY <2>1 DEF DiskOK
  <2>2. CASE d = Here(F, s)
    BY <2>2, <1>2 DEF Here
  <2>. QED BY <1>3, <2>1, <2>2
<1>. QED BY <1>1, <1>3 DEF DiskOK

\* The other processes are unaffected by a directory change of the holder.
LEMMA OthersKeepStepOK ==
    ASSUME IInv, NEW p \in Procs, lock = p, NEW q \in Procs, q # p,
           pc'[q] = pc[q], op'[q] = op[q], target'[q] = target[q], mode'[q] = mode[q]
    PROVE  StepOK(q)'
<1>1. pc[q] \in {"idle", "lock"}
  BY DEF IInv, Exclusive
<1>. QED BY <1>1 DEF IInv, StepOK

\* A receipt given after the directory was synchronised.
LEMMA ReceiptKeepsIInv ==
    ASSUME IInv, NEW p \in Procs, SyncDirectory, Return(p), target[p] \in files,
           acked' = acked \cup {target[p]}
    PROVE  IInv'
<1>. USE DEF IInv, Return, Goto, SyncDirectory
<1>1. << >> \in Chains
  BY EmptySeq, MaxRevisionsAssumption DEF Chains
<1>2. TypeOK'
  BY <1>1 DEF TypeOK, Steps, Here, Directories
<1>3. Exclusive'
  BY NoProcAssumption DEF Exclusive, TypeOK
<1>4. DiskOK'
  BY DEF DiskOK, Here
<1>5. (\A q \in Procs : StepOK(q))'
  BY DEF StepOK, TypeOK, Extends, Latest, StagedAs
<1>. QED BY <1>2, <1>3, <1>4, <1>5

\* The latest revision of the visible directory, as the steps use it.
LEMMA LatestVisible ==
    ASSUME IInv
    PROVE  /\ HoldsChain(files)
           /\ Latest \in Chains
           /\ Latest # << >> => Latest \in files
           /\ files # {} => Latest # << >>
<1>1. HoldsChain(files)
  BY DEF IInv, DiskOK, Here
<1>. QED BY <1>1, ChainOfLatest DEF Latest

\* One more record on a chain below the limit is a chain.
LEMMA ChainsOfAppend ==
    ASSUME NEW c \in Chains, Len(c) < MaxRevisions, NEW r \in Records
    PROVE  Append(c, r) \in Chains
<1>1. c \in Seq(Records) /\ Len(c) \in Nat
  BY LenProperties DEF Chains
<1>2. Append(c, r) \in Seq(Records) /\ Len(Append(c, r)) = Len(c) + 1
  BY <1>1, AppendProperties
<1>. QED BY <1>1, <1>2, MaxRevisionsAssumption DEF Chains

\* Deciding to publish prepares a file that extends the visible chain.
LEMMA DecidePublishKeepsIInv ==
    ASSUME IInv, NEW p \in Procs, DecidePublish(p)
    PROVE  IInv'
<1>. USE DEF IInv, DecidePublish, KeepDirectory, Goto
<1>1. op[p] \in Operations
  BY DEF StepOK
<1>2. op[p].record \in Records
  BY <1>1 DEF Operations
<1>3. Latest \in Seq(Records) /\ Len(Latest) \in Nat /\ Latest \in Chains
  BY LatestVisible, LenProperties DEF Chains
<1>4. Len(Latest) < MaxRevisions
  BY DEF Publishable
<1>5. Latest # << >> => ValidSuccessor(Latest[Len(Latest)], op[p].record)
  <2>. SUFFICES ASSUME Latest # << >>
                PROVE  ValidSuccessor(Latest[Len(Latest)], op[p].record)
    OBVIOUS
  <2>1. files # {}
    BY LatestVisible
  <2>2. op[p].kind \in Kinds /\ op[p].kind # "read" /\ op[p].kind # "create"
    BY <1>1, <2>1 DEF Publishable, Operations
  <2>. QED BY <2>1, <2>2 DEF Publishable, Kinds
<1>6. target'[p] = Append(Latest, op[p].record)
  BY DEF NextRevision, TypeOK
<1>7. target'[p] \in Chains
  BY <1>2, <1>3, <1>4, <1>6, ChainsOfAppend
<1>8. lock = p
  BY DEF Exclusive
<1>9. TypeOK'
  BY <1>7 DEF TypeOK, Steps
<1>10. Exclusive'
  BY <1>8 DEF Exclusive, TypeOK
<1>11. DiskOK'
  BY DEF DiskOK, Here
<1>12. StepOK(p)'
  <2>1. Latest' = Latest
    BY DEF Latest
  <2>2. Extends(target[p])'
    BY <1>2, <1>5, <1>6, <2>1 DEF Extends
  <2>3. target'[p] # << >>
    BY <1>2, <1>3, <1>6, AppendProperties
  <2>4. pc'[p] = "stage"
    BY DEF TypeOK
  <2>. QED BY <1>1, <1>4, <2>1, <2>2, <2>3, <2>4 DEF StepOK
<1>13. ASSUME NEW q \in Procs, q # p PROVE StepOK(q)'
  <2>1. pc'[q] = pc[q] /\ op'[q] = op[q] /\ target'[q] = target[q] /\ mode'[q] = mode[q]
    BY <1>13 DEF TypeOK
  <2>. QED BY <2>1, <1>8, <1>13, OthersKeepStepOK
<1>. QED BY <1>9, <1>10, <1>11, <1>12, <1>13

\* The idempotent path names the latest revision.
LEMMA DecidePresentKeepsIInv ==
    ASSUME IInv, NEW p \in Procs, DecidePresent(p)
    PROVE  IInv'
<1>. USE DEF IInv, DecidePresent, KeepDirectory, Goto
<1>1. files # {}
  BY DEF AlreadyPresent
<1>2. Latest \in Chains /\ Latest # << >>
  BY <1>1, LatestVisible
<1>3. lock = p
  BY DEF Exclusive
<1>4. TypeOK'
  BY <1>2 DEF TypeOK, Steps
<1>5. Exclusive'
  BY <1>3 DEF Exclusive, TypeOK
<1>6. DiskOK'
  BY DEF DiskOK, Here
<1>7. StepOK(p)'
  BY <1>2 DEF StepOK, TypeOK, Latest
<1>8. ASSUME NEW q \in Procs, q # p PROVE StepOK(q)'
  <2>1. pc'[q] = pc[q] /\ op'[q] = op[q] /\ target'[q] = target[q] /\ mode'[q] = mode[q]
    BY <1>8 DEF TypeOK
  <2>. QED BY <2>1, <1>3, <1>8, OthersKeepStepOK
<1>. QED BY <1>4, <1>5, <1>6, <1>7, <1>8

\* A step of the operation that changes the directory and moves p on.
LEMMA ChangeKeepsIInv ==
    ASSUME IInv, NEW p \in Procs, pc[p] \notin {"idle", "lock"},
           NEW F \in SUBSET Revisions, NEW s \in StagingFiles \cup {NoFile},
           NEW step \in Steps, ChangeDirectory(F, s), KeepCall, Goto(p, step),
           HoldsChain(F), RecoverableStaging(Here(F, s)), files \subseteq F, StepOK(p)'
    PROVE  IInv'
<1>1. lock = p
  BY DEF IInv, Exclusive
<1>2. TypeOK'
  BY DEF IInv, TypeOK, ChangeDirectory, KeepCall, Goto, Here, Directories
<1>3. Exclusive'
  BY <1>1 DEF IInv, Exclusive, TypeOK, KeepCall, Goto
<1>4. DiskOK'
  BY ChangeKeepsDiskOK DEF KeepCall
<1>5. ASSUME NEW q \in Procs, q # p PROVE StepOK(q)'
  <2>1. pc'[q] = pc[q] /\ op'[q] = op[q] /\ target'[q] = target[q] /\ mode'[q] = mode[q]
    BY <1>5 DEF IInv, TypeOK, KeepCall, Goto
  <2>. QED BY <2>1, <1>1, <1>5, OthersKeepStepOK
<1>. QED BY <1>2, <1>3, <1>4, <1>5 DEF IInv

\* What every directory change starts from.
LEMMA VisibleFacts ==
    ASSUME IInv
    PROVE  /\ files \in SUBSET Revisions
           /\ staging \in StagingFiles \cup {NoFile}
           /\ RecoverableStaging(Here(files, staging))
           /\ RecoverableStaging(Here(files, NoFile))
  BY DEF IInv, TypeOK, DiskOK, RecoverableStaging, Here

\* The file a publication holds is a revision.
LEMMA TargetIsRevision ==
    ASSUME IInv, NEW p \in Procs, pc[p] \in {"stage", "write", "link"}
    PROVE  target[p] \in Revisions
<1>1. Extends(target[p]) /\ Len(Latest) < MaxRevisions
  BY DEF IInv, StepOK
<1>. QED BY <1>1, LatestVisible, LinkedChain, MaxRevisionsAssumption

\* Every step of publish_create_only_platform keeps the invariant.
LEMMA PublicationKeepsIInv ==
    ASSUME IInv, NEW p \in Procs, Publication(p)
    PROVE  IInv'
<1>. USE DEF IInv
<1>1. CASE Stage(p)
  <2>. DEFINE s == StagedAs(p, FALSE, FALSE)
  <2>1. target[p] \in Revisions
    BY <1>1, TargetIsRevision DEF Stage
  <2>2. s \in StagingFiles
    BY <2>1 DEF StagingFiles, StagedAs
  <2>3. RecoverableStaging(Here(files, s))
    BY DEF RecoverableStaging, Here, StagedAs
  <2>4. StepOK(p)'
    BY <1>1 DEF Stage, StepOK, ChangeDirectory, Goto, KeepCall, TypeOK, Extends, Latest, StagedAs
  <2>. QED BY <1>1, <2>2, <2>3, <2>4, VisibleFacts, LatestVisible, ChangeKeepsIInv
           DEF Stage, Steps
<1>2. CASE WriteStaging(p)
  <2>. DEFINE s == StagedAs(p, TRUE, FALSE)
  <2>1. target[p] \in Revisions
    BY <1>2, TargetIsRevision DEF WriteStaging
  <2>3. s \in StagingFiles
    BY <2>1 DEF StagingFiles, StagedAs
  <2>4. RecoverableStaging(Here(files, s))
    BY DEF RecoverableStaging, Here, StagedAs
  <2>5. ChangeDirectory(files, s)
    BY <1>2 DEF WriteStaging
  <2>6. StepOK(p)'
    BY <1>2, <2>5 DEF WriteStaging, StepOK, ChangeDirectory, Goto, KeepCall, TypeOK, Extends, Latest, StagedAs
  <2>. QED BY <1>2, <2>3, <2>4, <2>5, <2>6, VisibleFacts, LatestVisible, ChangeKeepsIInv
           DEF WriteStaging, Steps
<1>3. CASE LinkFinal(p)
  <2>. DEFINE s == StagedAs(p, TRUE, TRUE)
              F == files \cup {target[p]}
  <2>1. Extends(target[p]) /\ Len(Latest) < MaxRevisions
    BY <1>3 DEF LinkFinal, StepOK
  <2>2. target[p] \in Revisions /\ HoldsChain(F) /\ LatestOf(F) = target[p]
    BY <2>1, LatestVisible, LinkedChain, MaxRevisionsAssumption
  <2>4. s \in StagingFiles
    BY <2>2 DEF StagingFiles, StagedAs
  <2>5. RecoverableStaging(Here(F, s))
    BY DEF RecoverableStaging, Here, StagedAs
  <2>6. ChangeDirectory(F, s)
    BY <1>3 DEF LinkFinal
  <2>7. StepOK(p)'
    <3>1. Latest' = target[p] /\ target[p] # << >>
      BY <2>2, <2>6 DEF ChangeDirectory, Latest, Revisions
    <3>. QED BY <1>3, <2>6, <3>1 DEF LinkFinal, StepOK, ChangeDirectory, Goto, KeepCall, TypeOK, StagedAs
  <2>. QED BY <1>3, <2>2, <2>4, <2>5, <2>6, <2>7, VisibleFacts, ChangeKeepsIInv
           DEF LinkFinal, Steps
<1>4. CASE FlushFinal(p)
  <2>1. StepOK(p)'
    BY <1>4 DEF FlushFinal, StepOK, KeepDirectory, Goto, KeepCall, TypeOK, Latest, StagedAs
  <2>. QED BY <1>4, <2>1, MoveKeepsIInv DEF FlushFinal, Steps, Exclusive
<1>5. CASE UnlinkStaging(p)
  <2>1. StepOK(p)'
    BY <1>5 DEF UnlinkStaging, StepOK, ChangeDirectory, Goto, KeepCall, TypeOK, Latest
  <2>. QED BY <1>5, <2>1, VisibleFacts, LatestVisible, ChangeKeepsIInv
           DEF UnlinkStaging, Steps
<1>6. CASE ReadBack(p)
  <2>1. StepOK(p)'
    BY <1>6 DEF ReadBack, StepOK, KeepDirectory, Goto, KeepCall, TypeOK, Latest
  <2>. QED BY <1>6, <2>1, MoveKeepsIInv DEF ReadBack, Steps, Exclusive
<1>7. CASE SyncFinal(p)
  <2>1. target[p] \in files
    BY <1>7, LatestVisible DEF SyncFinal, StepOK
  <2>. QED BY <1>7, <2>1, ReceiptKeepsIInv DEF SyncFinal
<1>. QED BY <1>1, <1>2, <1>3, <1>4, <1>5, <1>6, <1>7 DEF Publication

\* Every other step of a process that meets no failure keeps the invariant.
LEMMA ProgressKeepsIInv ==
    ASSUME IInv, NEW p \in Procs, Progress(p)
    PROVE  IInv'
<1>. USE DEF IInv
<1>1. CASE Lock(p)
  <2>. USE <1>1 DEF Lock, Goto, KeepDirectory
  <2>1. TypeOK'
    BY DEF TypeOK, Steps
  <2>2. Exclusive'
    BY NoProcAssumption DEF Exclusive, TypeOK
  <2>3. DiskOK'
    BY DEF DiskOK, Here
  <2>4. (\A q \in Procs : StepOK(q))'
    BY DEF StepOK, TypeOK, Extends, Latest, StagedAs
  <2>. QED BY <2>1, <2>2, <2>3, <2>4
<1>2. CASE Busy(p)
  BY <1>2, ReturnKeepsIInv DEF Busy
<1>3. CASE RecoverNothing(p)
  <2>1. AfterRecovery(p) \in {"decide", "confirm"} /\ AfterRecovery(p) \in Steps
    BY DEF AfterRecovery, Steps
  <2>2. StepOK(p)'
    BY <1>3, <2>1 DEF RecoverNothing, AfterRecovery, StepOK, KeepDirectory, Goto, KeepCall, TypeOK
  <2>. QED BY <1>3, <2>1, <2>2, MoveKeepsIInv DEF RecoverNothing, Exclusive
<1>4. CASE RecoverStaging(p)
  <2>1. StepOK(p)'
    BY <1>4 DEF RecoverStaging, StepOK, ChangeDirectory, Goto, KeepCall, TypeOK
  <2>. QED BY <1>4, <2>1, VisibleFacts, LatestVisible, ChangeKeepsIInv
           DEF RecoverStaging, Steps
<1>5. CASE SyncRecovery(p)
  <2>. USE <1>5 DEF SyncRecovery, SyncDirectory, Goto, KeepCall
  <2>1. TypeOK'
    BY DEF TypeOK, Steps, Here, Directories
  <2>2. Exclusive'
    BY DEF Exclusive, TypeOK
  <2>3. DiskOK'
    BY DEF DiskOK, Here
  <2>4. (\A q \in Procs : StepOK(q))'
    BY DEF StepOK, TypeOK, Extends, Latest, StagedAs
  <2>. QED BY <2>1, <2>2, <2>3, <2>4
<1>6. CASE DecidePublish(p)
  BY <1>6, DecidePublishKeepsIInv
<1>7. CASE DecidePresent(p)
  BY <1>7, DecidePresentKeepsIInv
<1>8. CASE DecideReturn(p)
  BY <1>8, ReturnKeepsIInv DEF DecideReturn
<1>9. CASE Publication(p)
  BY <1>9, PublicationKeepsIInv
<1>10. CASE EnsureDurable(p)
  <2>1. target[p] \in files
    BY <1>10, LatestVisible DEF EnsureDurable, StepOK
  <2>. QED BY <1>10, <2>1, ReceiptKeepsIInv DEF EnsureDurable
<1>11. CASE Confirm(p)
  <2>1. target[p] # << >>
    BY <1>11 DEF Confirm, StepOK
  <2>2. target[p] \in files
    BY <1>11, <2>1, LatestVisible DEF Confirm
  <2>. QED BY <1>11, <2>2, ReceiptKeepsIInv DEF Confirm
<1>. QED BY <1>1, <1>2, <1>3, <1>4, <1>5, <1>6, <1>7, <1>8, <1>9, <1>10, <1>11 DEF Progress

\* Failed system calls and dying processes keep the invariant.
LEMMA FailureKeepsIInv ==
    ASSUME IInv, NEW p \in Procs, Failure(p)
    PROVE  IInv'
<1>1. CASE StepFails(p)
  BY <1>1, ReturnKeepsIInv DEF StepFails
<1>2. CASE DiscardStaging(p)
  <2>. USE <1>2 DEF DiscardStaging, Return, Goto
  <2>0. << >> \in Chains
    BY EmptySeq, MaxRevisionsAssumption DEF Chains
  <2>1. lock = p
    BY DEF IInv, Exclusive
  <2>2. TypeOK'
    BY <2>0 DEF IInv, TypeOK, Steps, ChangeDirectory, Here, Directories
  <2>3. Exclusive'
    BY NoProcAssumption DEF IInv, Exclusive, TypeOK
  <2>4. DiskOK'
    BY VisibleFacts, LatestVisible, ChangeKeepsDiskOK
  <2>5. StepOK(p)'
    BY DEF IInv, StepOK, TypeOK
  <2>6. ASSUME NEW q \in Procs, q # p PROVE StepOK(q)'
    <3>1. pc'[q] = pc[q] /\ op'[q] = op[q] /\ target'[q] = target[q] /\ mode'[q] = mode[q]
      BY <2>6 DEF IInv, TypeOK
    <3>. QED BY <3>1, <2>1, <2>6, OthersKeepStepOK
  <2>. QED BY <2>2, <2>3, <2>4, <2>5, <2>6 DEF IInv
<1>3. CASE CommitUncertain(p)
  <2>. USE <1>3 DEF CommitUncertain, Goto, KeepDirectory, IInv
  <2>1. TypeOK'
    BY DEF TypeOK, Steps
  <2>2. Exclusive'
    BY DEF Exclusive, TypeOK
  <2>3. DiskOK'
    BY DEF DiskOK, Here
  <2>4. (\A q \in Procs : StepOK(q))'
    BY DEF StepOK, TypeOK, Extends, Latest, StagedAs
  <2>. QED BY <2>1, <2>2, <2>3, <2>4
<1>4. CASE Crash(p)
  BY <1>4, ReturnKeepsIInv DEF Crash
<1>. QED BY <1>1, <1>2, <1>3, <1>4 DEF Failure

\* A power loss leaves one of the directories the invariant covers.
LEMMA PowerLossKeepsIInv ==
    ASSUME IInv, PowerLoss
    PROVE  IInv'
<1>. USE DEF IInv, PowerLoss
<1>0. << >> \in Chains
  BY EmptySeq, MaxRevisionsAssumption DEF Chains
<1>1. PICK d \in images : files' = d.files /\ staging' = d.staging /\ images' = {d}
  OBVIOUS
<1>2. d \in Directories
  BY DEF TypeOK
<1>3. d = Here(d.files, d.staging)
  BY <1>2 DEF Directories, Here
<1>4. TypeOK'
  BY <1>0, <1>1, <1>2 DEF TypeOK, Steps, Directories
<1>5. Exclusive'
  BY DEF Exclusive
<1>6. DiskOK'
  BY <1>1, <1>3 DEF DiskOK, Here
<1>7. (\A q \in Procs : StepOK(q))'
  BY DEF StepOK
<1>. QED BY <1>4, <1>5, <1>6, <1>7

\* Every step of the store keeps the invariant.
LEMMA NextKeepsIInv == IInv /\ [Next]_vars => IInv'
<1>. SUFFICES ASSUME IInv, [Next]_vars PROVE IInv'
  OBVIOUS
<1>1. ASSUME NEW p \in Procs, NEW o \in Operations, Begin(p, o)
      PROVE  IInv'
  <2>. USE <1>1 DEF Begin, Goto, KeepDirectory, IInv
  <2>1. TypeOK'
    BY DEF TypeOK, Steps
  <2>2. Exclusive'
    BY DEF Exclusive, TypeOK
  <2>3. DiskOK'
    BY DEF DiskOK, Here
  <2>4. (\A q \in Procs : StepOK(q))'
    BY DEF StepOK, TypeOK, Extends, Latest, StagedAs
  <2>. QED BY <2>1, <2>2, <2>3, <2>4
<1>2. CASE UNCHANGED vars
  BY <1>2 DEF vars, IInv, TypeOK, Exclusive, DiskOK, StepOK, Extends, Latest, Here, StagedAs
<1>. QED BY <1>1, <1>2, ProgressKeepsIInv, FailureKeepsIInv, PowerLossKeepsIInv DEF Next

\* The inductive invariant holds in every reachable state of the store.
THEOREM StoreInvariant == Spec => []IInv
  BY InitIInv, NextKeepsIInv, PTL DEF Spec

-----------------------------------------------------------------------------
(* What the invariant gives.                                               *)

\* Every variable of the store keeps its type, whatever fails.
THEOREM TypeCorrect == Spec => []TypeOK
<1>1. IInv => TypeOK
  BY DEF IInv
<1>. QED BY <1>1, StoreInvariant, PTL

\* At whatever step publication is interrupted, the directory left behind is
\* one that recover_revision_staging and scan_revision_files accept.
THEOREM CrashSafety == Spec => []CrashConsistent
<1>1. IInv => CrashConsistent
  <2>. SUFFICES ASSUME IInv, NEW d \in images \cup {Here(files, staging)}
                PROVE  ScanAccepts(d.files) /\ RecoverableStaging(d)
    BY DEF CrashConsistent
  <2>1. d \in images
    BY DEF IInv, DiskOK
  <2>2. HoldsChain(d.files) /\ RecoverableStaging(d)
    BY <2>1 DEF IInv, DiskOK
  <2>. QED BY <2>2, ChainOfLatest DEF ScanAccepts
<1>. QED BY <1>1, StoreInvariant, PTL

\* A revision some caller holds a receipt for survives every power loss.
THEOREM ReceiptsAreDurable == Spec => []AckedDurable
<1>1. IInv => AckedDurable
  BY DEF IInv, DiskOK, AckedDurable
<1>. QED BY <1>1, StoreInvariant, PTL

-----------------------------------------------------------------------------
(* The store implements the append-only log.                               *)

\* A directory with some of the files of another holds a prefix of its chain.
LEMMA SmallerDirectory ==
    ASSUME NEW F, NEW G, HoldsChain(F), HoldsChain(G), F \subseteq G
    PROVE  /\ Len(LatestOf(F)) \in 0..Len(LatestOf(G))
           /\ LatestOf(F) = SubSeq(LatestOf(G), 1, Len(LatestOf(F)))
<1>. DEFINE f == LatestOf(F)
            g == LatestOf(G)
<1>1. g \in Seq(Records) /\ Len(g) \in Nat /\ G = PrefixesOf(g)
  BY ChainOfLatest, LenProperties DEF Chains, IsChainOf
<1>2. CASE f = << >>
  <2>1. Len(f) = 0
    BY <1>2, EmptySeq
  <2>2. SubSeq(g, 1, 0) = << >>
    BY SubSeqEmpty
  <2>. QED BY <1>1, <1>2, <2>1, <2>2
<1>3. CASE f # << >>
  <2>1. f \in G
    BY <1>3, ChainOfLatest
  <2>2. PICK n \in 1..Len(g) : f = SubSeq(g, 1, n)
    BY <2>1, <1>1 DEF PrefixesOf
  <2>3. Len(f) = n
    BY <2>2, <1>1, PrefixFacts
  <2>. QED BY <2>2, <2>3, <1>1
<1>. QED BY <1>2, <1>3

\* Every file of a directory is a prefix of its latest revision.
LEMMA FilesArePrefixes ==
    ASSUME NEW F, HoldsChain(F), NEW a \in F
    PROVE  Abstract!IsPrefixOf(a, LatestOf(F))
<1>1. LatestOf(F) \in Seq(Records) /\ F = PrefixesOf(LatestOf(F))
  BY ChainOfLatest DEF Chains, IsChainOf
<1>2. PICK n \in 1..Len(LatestOf(F)) : a = SubSeq(LatestOf(F), 1, n)
  BY <1>1 DEF PrefixesOf
<1>3. Len(a) = n
  BY <1>1, <1>2, PrefixFacts
<1>4. Len(LatestOf(F)) \in Nat
  BY <1>1, LenProperties
<1>. QED BY <1>2, <1>3, <1>4 DEF Abstract!IsPrefixOf

\* A receipt acknowledges the log as it is.
LEMMA ReceiptAcknowledges ==
    ASSUME IInv, NEW p \in Procs, SyncDirectory, target[p] = Latest, target[p] # << >>,
           acked' = acked \cup {target[p]}
    PROVE  Abstract!Acknowledge
  BY DEF SyncDirectory, Abstract!Acknowledge, Latest

\* The only step that makes a record visible is the final link.
LEMMA LinkPublishes ==
    ASSUME IInv, NEW p \in Procs, LinkFinal(p)
    PROVE  \E r \in Records : Abstract!Publish(r)
<1>1. Extends(target[p]) /\ Len(Latest) < MaxRevisions
  BY DEF IInv, StepOK, LinkFinal
<1>2. Latest' = target[p]
  BY <1>1, LatestVisible, LinkedChain, MaxRevisionsAssumption
     DEF LinkFinal, ChangeDirectory, Latest
<1>3. PICK r \in Records : /\ target[p] = Append(Latest, r)
                           /\ Latest # << >> => ValidSuccessor(Latest[Len(Latest)], r)
  BY <1>1 DEF Extends
<1>4. Len(Latest) > 0 => Latest # << >>
  BY EmptySeq
<1>5. acked' = acked
  BY DEF LinkFinal, KeepCall
<1>6. Abstract!Publish(r)
  BY <1>1, <1>2, <1>3, <1>4, <1>5 DEF Abstract!Publish
<1>. QED BY <1>6

\* A power loss cuts the log, never below what was acknowledged.
LEMMA PowerLossLoses ==
    ASSUME IInv, PowerLoss
    PROVE  \E k \in 0..Len(Latest) : Abstract!Lose(k)
<1>1. PICK d \in images : files' = d.files
  BY DEF PowerLoss
<1>2. HoldsChain(d.files) /\ d.files \subseteq files /\ acked \subseteq d.files
  BY DEF IInv, DiskOK
<1>3. Latest' = LatestOf(d.files)
  BY <1>1 DEF Latest
<1>4. /\ Len(Latest') \in 0..Len(Latest)
      /\ Latest' = SubSeq(Latest, 1, Len(Latest'))
  BY <1>2, <1>3, LatestVisible, SmallerDirectory DEF Latest
<1>5. \A a \in acked : Abstract!IsPrefixOf(a, Latest')
  BY <1>2, <1>3, FilesArePrefixes
<1>6. acked' = acked
  BY DEF PowerLoss
<1>7. Abstract!Lose(Len(Latest'))
  BY <1>4, <1>5, <1>6 DEF Abstract!Lose
<1>. QED BY <1>4, <1>7

\* Every step of the store is a step of the log or leaves it alone.
LEMMA NextImplementsLog ==
    IInv /\ [Next]_vars => [Abstract!LogNext]_<<Latest, acked>>
<1>. SUFFICES ASSUME IInv, [Next]_vars
              PROVE  Abstract!LogNext \/ UNCHANGED <<Latest, acked>>
  OBVIOUS
<1>1. CASE UNCHANGED vars
  BY <1>1 DEF vars, Latest
<1>2. ASSUME NEW p \in Procs, NEW o \in Operations, Begin(p, o)
      PROVE  UNCHANGED <<Latest, acked>>
  BY <1>2 DEF Begin, KeepDirectory, Latest
<1>3. ASSUME NEW p \in Procs, Progress(p)
      PROVE  Abstract!LogNext \/ UNCHANGED <<Latest, acked>>
  <2>1. CASE Lock(p) \/ Busy(p) \/ RecoverNothing(p) \/ DecidePublish(p)
             \/ DecidePresent(p) \/ DecideReturn(p) \/ FlushFinal(p) \/ ReadBack(p)
    BY <2>1 DEF Lock, Busy, RecoverNothing, DecidePublish, DecidePresent, DecideReturn,
                FlushFinal, ReadBack, KeepDirectory, KeepCall, Latest
  <2>2. CASE RecoverStaging(p) \/ Stage(p) \/ WriteStaging(p) \/ UnlinkStaging(p)
    BY <2>2 DEF RecoverStaging, Stage, WriteStaging, UnlinkStaging, ChangeDirectory,
                KeepCall, Latest
  <2>3. CASE SyncRecovery(p)
    BY <2>3 DEF SyncRecovery, SyncDirectory, KeepCall, Latest
  <2>4. CASE LinkFinal(p)
    BY <2>4, LinkPublishes DEF Abstract!LogNext
  <2>5. CASE SyncFinal(p)
    <3>1. target[p] = Latest /\ target[p] # << >>
      BY <2>5 DEF IInv, StepOK, SyncFinal
    <3>. QED BY <2>5, <3>1, ReceiptAcknowledges DEF SyncFinal, Abstract!LogNext
  <2>6. CASE EnsureDurable(p)
    <3>1. target[p] = Latest /\ target[p] # << >>
      BY <2>6 DEF IInv, StepOK, EnsureDurable
    <3>. QED BY <2>6, <3>1, ReceiptAcknowledges DEF EnsureDurable, Abstract!LogNext
  <2>7. CASE Confirm(p)
    <3>1. target[p] = Latest /\ target[p] # << >>
      BY <2>7 DEF IInv, StepOK, Confirm
    <3>. QED BY <2>7, <3>1, ReceiptAcknowledges DEF Confirm, Abstract!LogNext
  <2>. QED BY <1>3, <2>1, <2>2, <2>3, <2>4, <2>5, <2>6, <2>7 DEF Progress, Publication
<1>4. ASSUME NEW p \in Procs, Failure(p)
      PROVE  UNCHANGED <<Latest, acked>>
  BY <1>4 DEF Failure, StepFails, DiscardStaging, CommitUncertain, Crash, KeepDirectory,
              ChangeDirectory, Latest
<1>5. CASE PowerLoss
  BY <1>5, PowerLossLoses DEF Abstract!LogNext
<1>. QED BY <1>1, <1>2, <1>3, <1>4, <1>5 DEF Next

\* The revisions directory, with its staging files, links, failures and power
\* losses, implements the append-only log of RevisionLog.
THEOREM StoreImplementsLog == Spec => ImplementsLog
<1>1. Init => Abstract!LogInit
  <2>. SUFFICES ASSUME Init PROVE Latest = << >> /\ acked = {}
    BY DEF Abstract!LogInit
  <2>1. LatestOf({}) = << >>
    BY DEF LatestOf
  <2>. QED BY <2>1 DEF Init, Latest
<1>2. IInv /\ [Next]_vars => [Abstract!LogNext]_(Abstract!logVars)
  BY NextImplementsLog DEF Abstract!logVars
<1>. QED BY <1>1, <1>2, StoreInvariant, PTL DEF Spec, ImplementsLog, Abstract!LogSpec
=============================================================================
