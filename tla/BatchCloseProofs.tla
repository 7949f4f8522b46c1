-------------------------- MODULE BatchCloseProofs --------------------------
(***************************************************************************)
(* One proof bundle and who uses it, for any batches, settings and runs:   *)
(* the writer implements BundleRegister, verify-proof answers for the      *)
(* bundle issued last, and the controller signs over proofs only.          *)
(***************************************************************************)
EXTENDS BatchClose, CollectionTheorems, SequenceTheorems

-----------------------------------------------------------------------------
(* The bundle.                                                              *)

\* What may be in a file: a certificate some run issues.
Issued == UNION {{Issue(close, o) : o \in OrdersOf[close.batch]} : close \in Closes}

FilesAreIssued ==
    /\ files \in [Order -> Issued \cup {None}]
    /\ \A o \in Order : files[o] # None => files[o].order = o

ActiveWriter == [pc : {"build", "replace", "issued"}, close : Closes,
                 stale : SUBSET Order, left : SUBSET Order]

\* A run that is past "build" has written what it has not left to write, and
\* what it removes is not of its bundle.
WriterInv ==
    /\ writer \in ActiveWriter \cup {NoWriter}
    /\ writer.pc = "replace" =>
        LET new == OrdersOf[writer.close.batch] IN
        /\ writer.left \subseteq new
        /\ writer.stale \cap new = {}
        /\ \A o \in new \ writer.left : files[o] = Issue(writer.close, o)

BundleInv == FilesAreIssued /\ manifest \in Closes \cup {None} /\ WriterInv

-----------------------------------------------------------------------------
(* The constants.                                                           *)

LEMMA CloseShape ==
    ASSUME NEW close \in Closes
    PROVE  /\ close \in Close /\ close.batch \in Batch /\ close.setting \in Setting
           /\ close # None
           /\ OrdersOf[close.batch] \subseteq Order
           /\ Names(close) = {Issue(close, o) : o \in OrdersOf[close.batch]}
<1>1. close \in Close /\ close # None
  BY CloseConstants, BundleConstants DEF CloseConstants, BundleConstants
<1>2. close.batch \in Batch /\ close.setting \in Setting
  BY <1>1 DEF Close
<1> QED
  BY <1>1, <1>2 DEF Order, Names

LEMMA IssuedShape ==
    ASSUME NEW c \in Issued
    PROVE  /\ c \in Certificate /\ c # None
           /\ c.close \in Closes /\ c.order \in OrdersOf[c.close.batch]
           /\ c = Issue(c.close, c.order)
<1>1. PICK close \in Closes : \E o \in OrdersOf[close.batch] : c = Issue(close, o)
  BY DEF Issued
<1>2. PICK o \in OrdersOf[close.batch] : c = Issue(close, o)
  BY <1>1
<1>3. c.close = close /\ c.order = o
  BY <1>2 DEF Issue
<1>4. c \in Certificate
  BY <1>2, CloseShape DEF Issue, Certificate
<1> QED
  BY <1>2, <1>3, <1>4, BundleConstants DEF BundleConstants

LEMMA IssueIsIssued ==
    ASSUME NEW close \in Closes, NEW o \in OrdersOf[close.batch]
    PROVE  /\ Issue(close, o) \in Issued /\ Issue(close, o).order = o
           /\ Issue(close, o).close = close /\ o \in Order
BY CloseShape DEF Issued, Issue

\* A nonempty set of orders has a least one.
LEMMA LeastOrder ==
    ASSUME NEW S \in SUBSET Order, S # {}
    PROVE  Min(S) \in S
BY LeastNatural, BundleConstants DEF BundleConstants

-----------------------------------------------------------------------------
(* The writer.                                                              *)

LEMMA WriterShape ==
    ASSUME WriterInv, writer.pc # "idle"
    PROVE  /\ writer \in ActiveWriter
           /\ writer.close \in Closes /\ writer.close.batch \in Batch
           /\ writer.stale \subseteq Order /\ writer.left \subseteq Order
<1>1. writer \in ActiveWriter
  BY DEF WriterInv, NoWriter
<1>2. writer.close \in Closes
  BY <1>1 DEF ActiveWriter
<1> QED
  BY <1>1, <1>2, CloseShape DEF ActiveWriter

\* Starting, dying and ending leave the files and the manifest.
LEMMA WriterAside ==
    ASSUME BundleInv, files' = files, manifest' = manifest,
           writer' \in ActiveWriter \cup {NoWriter}, writer' = writer \/ writer'.pc # "replace"
    PROVE  BundleInv'
BY DEF BundleInv, FilesAreIssued, WriterInv

LEMMA BuildKeepsInv == ASSUME BundleInv, Build PROVE BundleInv'
<1> DEFINE new == OrdersOf[writer.close.batch]
           old == {c.order : c \in Names(manifest)}
<1>1. writer \in ActiveWriter /\ writer.close \in Closes /\ new \subseteq Order
  BY WriterShape, CloseShape DEF BundleInv, Build
<1>2. old \subseteq Order
  <2>1. CASE manifest = None
    BY <2>1 DEF Names
  <2>2. CASE manifest # None
    <3>1. manifest \in Closes
      BY <2>2 DEF BundleInv
    <3>2. \A c \in Names(manifest) : c.order \in Order
      BY <3>1, CloseShape, IssueIsIssued
    <3> QED
      BY <3>2
  <2> QED
    BY <2>1, <2>2
<1>3. writer' = [writer EXCEPT !.pc = "replace", !.stale = old \ new, !.left = new]
  BY DEF Build
<1> HIDE DEF old
<1>4. /\ writer' \in ActiveWriter /\ writer'.close = writer.close
      /\ writer'.left = new /\ writer'.stale = old \ new
  BY <1>1, <1>2, <1>3 DEF ActiveWriter
<1>5. WriterInv'
  BY <1>1, <1>4 DEF WriterInv
<1> QED
  BY <1>5 DEF BundleInv, FilesAreIssued, Build

LEMMA UnlinkKeepsInv == ASSUME BundleInv, Unlink PROVE BundleInv'
<1>1. PICK o \in writer.stale : /\ files' = [files EXCEPT ![o] = None]
                                /\ writer' = [writer EXCEPT !.stale = writer.stale \ {o}]
  BY DEF Unlink
<1>2. /\ writer \in ActiveWriter /\ writer.pc = "replace" /\ manifest' = manifest
      /\ o \in Order /\ writer.close \in Closes
  BY WriterShape DEF BundleInv, Unlink
<1>3. /\ writer' \in ActiveWriter /\ writer'.close = writer.close
      /\ writer'.left = writer.left /\ writer'.stale = writer.stale \ {o}
  BY <1>1, <1>2 DEF ActiveWriter
<1>4. FilesAreIssued'
  BY <1>1, <1>2 DEF BundleInv, FilesAreIssued
<1>5. o \notin OrdersOf[writer.close.batch]
  BY <1>2 DEF BundleInv, WriterInv
<1>6. OrdersOf[writer.close.batch] \subseteq Order
  BY <1>2, CloseShape
<1>7. WriterInv'
  BY <1>1, <1>2, <1>3, <1>5, <1>6 DEF BundleInv, FilesAreIssued, WriterInv
<1> QED
  BY <1>2, <1>4, <1>7 DEF BundleInv

LEMMA ReplaceKeepsInv == ASSUME BundleInv, Replace PROVE BundleInv'
<1> DEFINE o == Min(writer.left)
<1>1. /\ writer \in ActiveWriter /\ writer.pc = "replace" /\ manifest' = manifest
      /\ writer.close \in Closes /\ writer.left \subseteq Order /\ writer.left # {}
      /\ files' = [files EXCEPT ![o] = Issue(writer.close, o)]
      /\ writer' = [writer EXCEPT !.left = writer.left \ {o}]
  BY WriterShape DEF BundleInv, Replace
<1>2. o \in writer.left /\ o \in Order
  BY <1>1, LeastOrder
<1> HIDE DEF o
<1>3. writer.left \subseteq OrdersOf[writer.close.batch]
      /\ OrdersOf[writer.close.batch] \subseteq Order
  BY <1>1, CloseShape DEF BundleInv, WriterInv
<1>4. Issue(writer.close, o) \in Issued /\ Issue(writer.close, o).order = o
  BY <1>1, <1>2, <1>3, IssueIsIssued
<1>5. FilesAreIssued'
  BY <1>1, <1>2, <1>4 DEF BundleInv, FilesAreIssued
<1>6. /\ writer' \in ActiveWriter /\ writer'.close = writer.close
      /\ writer'.left = writer.left \ {o} /\ writer'.stale = writer.stale
  BY <1>1 DEF ActiveWriter
<1>7. WriterInv'
  BY <1>1, <1>2, <1>3, <1>6 DEF BundleInv, FilesAreIssued, WriterInv
<1> QED
  BY <1>1, <1>5, <1>7 DEF BundleInv

\* What the manifest names, as it is replaced, is in the files.
LEMMA WriteManifestPublishes ==
    ASSUME BundleInv, WriteManifest
    PROVE  /\ BundleInv'
           /\ manifest' \in Closes
           /\ \A c \in Names(manifest') : files'[c.order] = c
<1>1. /\ writer \in ActiveWriter /\ writer.close \in Closes
      /\ writer.pc = "replace" /\ writer.left = {}
      /\ manifest' = writer.close /\ files' = files
      /\ writer' = [writer EXCEPT !.pc = "issued"]
  BY WriterShape DEF BundleInv, WriteManifest, AllReplaced
<1>2. writer' \in ActiveWriter /\ writer'.pc = "issued"
  BY <1>1 DEF ActiveWriter
<1>3. \A o \in OrdersOf[writer.close.batch] : files[o] = Issue(writer.close, o)
  BY <1>1 DEF BundleInv, WriterInv
<1>4. \A c \in Names(manifest') : files'[c.order] = c
  BY <1>1, <1>3, CloseShape, IssueIsIssued
<1> QED
  BY <1>1, <1>2, <1>4 DEF BundleInv, FilesAreIssued, WriterInv

\* The steps of everyone else.
Bystander ==
    \/ \E o \in Order, given \in Setting \cup {None} : OpenCertificate(o, given)
    \/ LoadSources \/ Answer
    \/ ServeDir \/ OpenCase \/ ListFiles \/ ReadFile \/ Show \/ ServerDies
    \/ \E o \in Order : ScreenResolves(o)
    \/ \E i \in 1..Len(cases) : McpCloses(i)

LEMMA StepKinds ==
    ASSUME [Next]_vars
    PROVE  \/ \E close \in Closes : Generate(close)
           \/ Build \/ Unlink \/ Replace \/ WriteManifest
           \/ WriterDies \/ RunEnds \/ ServeOwn
           \/ UNCHANGED bundle
<1>1. Bystander => UNCHANGED bundle
  BY DEF Bystander, OpenCertificate, LoadSources, Answer, ServeDir, OpenCase, ListFiles, ReadFile,
         Show, ServerDies, ScreenResolves, McpCloses
<1>2. UNCHANGED vars => UNCHANGED bundle
  BY DEF vars
<1> QED
  BY <1>1, <1>2 DEF Next, RunStep, WriterStep, Bystander

LEMMA BundleStarts == ASSUME Init PROVE BundleInv
BY DEF Init, BundleInit, BundleInv, FilesAreIssued, WriterInv, NoWriter

LEMMA BundleStep ==
    ASSUME BundleInv, [Next]_vars
    PROVE  BundleInv'
<1>1. ASSUME NEW close \in Closes, Generate(close) PROVE BundleInv'
  <2>1. writer' \in ActiveWriter /\ writer'.pc = "build"
    BY <1>1 DEF Generate, ActiveWriter
  <2> QED
    BY <1>1, <2>1, WriterAside DEF Generate
<1>2. ASSUME WriterDies \/ RunEnds \/ ServeOwn PROVE BundleInv'
  BY <1>2, WriterAside DEF WriterDies, RunEnds, ServeOwn, NoWriter
<1>3. ASSUME UNCHANGED bundle PROVE BundleInv'
  BY <1>3 DEF bundle, BundleInv, FilesAreIssued, WriterInv
<1> QED
  BY <1>1, <1>2, <1>3, BuildKeepsInv, UnlinkKeepsInv, ReplaceKeepsInv, WriteManifestPublishes,
     StepKinds

-----------------------------------------------------------------------------
(* The register.                                                            *)

Whole == \A c \in Names(manifest) : files[c.order] = c

LEMMA RegisterStarts == Init => Register!Init
BY DEF Init, BundleInit, Register!Init, Names

\* Only the last of a run's steps names another bundle.
LEMMA RegisterStep ==
    ASSUME BundleInv, [Next]_vars
    PROVE  [Register!Rewrite \/ Register!Publish]_<<manifest, Whole>>
<1>1. CASE manifest' = manifest
  <2>1. Whole' \in BOOLEAN
    BY DEF Whole
  <2> QED
    BY <1>1, <2>1 DEF Register!Rewrite, Whole
<1>2. CASE WriteManifest
  <2>1. manifest' \in Closes /\ Whole'
    BY <1>2, WriteManifestPublishes DEF Whole
  <2> QED
    BY <2>1 DEF Register!Publish, Whole
<1>3. ~WriteManifest => manifest' = manifest
  BY StepKinds DEF Generate, Build, Unlink, Replace, WriterDies, RunEnds, ServeOwn, bundle
<1> QED
  BY <1>1, <1>2, <1>3

(***************************************************************************)
(* write_proof_bundle issues a bundle only as a whole: whatever runs died  *)
(* before it, wherever, and whatever they left, when the manifest names a  *)
(* bundle for the first time every certificate of it is in its file.       *)
(***************************************************************************)
THEOREM BundlesAreIssuedWhole == Spec => ImplementsRegister
<1>1. Init => BundleInv /\ Register!Init
  BY BundleStarts, RegisterStarts
<1>2. BundleInv /\ [Next]_vars =>
        BundleInv' /\ [Register!Rewrite \/ Register!Publish]_<<manifest, Whole>>
  BY BundleStep, RegisterStep
<1> QED
  BY <1>1, <1>2, PTL DEF Spec, ImplementsRegister, Register!Spec, Whole

LEMMA AnswerIsIssued ==
    ASSUME BundleInv, [Next]_vars, verifier.pc = "loaded", verifier'.pc = "valid"
    PROVE  /\ verifier.certificate.close.batch = verifier.batch
           /\ manifest # None => verifier.certificate.close = manifest
           /\ manifest = None \/ verifier.given # None
                 => verifier.given = verifier.certificate.close.setting
<1>1. Answer
  BY DEF Next, Generate, RunStep, RunEnds, OpenCertificate, LoadSources, ServeOwn, ServeDir, OpenCase,
         ListFiles, ReadFile, Show, ServerDies, ScreenResolves, McpCloses, vars
<1>2. ProofValid(verifier.certificate, verifier.batch, verifier.given, manifest)
  BY <1>1 DEF Answer
<1>3. /\ verifier.certificate.close.batch = verifier.batch
      /\ manifest = None \/ verifier.certificate \in Names(manifest)
      /\ manifest = None \/ verifier.given # None
            => verifier.given = verifier.certificate.close.setting
  BY <1>2 DEF ProofValid, Verifies, Expected, NamedBy
<1>4. manifest # None => manifest \in Closes
  BY DEF BundleInv
<1> QED
  BY <1>3, <1>4, CloseShape, IssueIsIssued

(***************************************************************************)
(* verify-proof calls a certificate valid only if it is of the batch it    *)
(* read and of the bundle issued last, and of the settings its caller      *)
(* named; while no bundle was issued it calls none valid unless the caller *)
(* named them (cmd_verify_proof, verify_certificate).                      *)
(***************************************************************************)
THEOREM OnlyIssuedIsValid == Spec => ValidMeansIssued
<1>1. BundleInv /\ [Next]_vars =>
        [(verifier.pc = "loaded" /\ verifier'.pc = "valid") =>
            /\ verifier.certificate.close.batch = verifier.batch
            /\ manifest # None => verifier.certificate.close = manifest
            /\ manifest = None \/ verifier.given # None
                  => verifier.given = verifier.certificate.close.setting]_vars
  BY AnswerIsIssued
<1>2. Init => BundleInv
  BY BundleStarts
<1>3. BundleInv /\ [Next]_vars => BundleInv'
  BY BundleStep
<1> QED
  BY <1>1, <1>2, <1>3, PTL DEF Spec, ValidMeansIssued

-----------------------------------------------------------------------------
(* The table of cases and what a page shows of it.                          *)

Reasons == {"POLICY_ESCALATION", "AMBIGUOUS_MATCH", "POLICY_HOLD"}
Entry == [subject : Order, reason : Reasons]
Row == [subject : Order, reason : Reasons, open : BOOLEAN]

Holds(table, e) ==
    \E i \in 1..Len(table) : table[i].subject = e.subject /\ table[i].reason = e.reason

\* One case for a subject and a reason.
TableOK(table) ==
    /\ table \in Seq(Row)
    /\ \A i, j \in 1..Len(table) :
          i # j => table[i].subject # table[j].subject \/ table[i].reason # table[j].reason

Screen == UNION {[D -> [case : Nat, open : BOOLEAN]] : D \in SUBSET Order}

\* A screen has the last case of every subject, and knows of it what is closed at most.
Shows(screen, table) ==
    /\ screen \in Screen
    /\ \A s \in DOMAIN screen :
          LET k == screen[s] IN
          /\ k.case \in 1..Len(table) /\ table[k.case].subject = s
          /\ \A j \in (k.case + 1)..Len(table) : table[j].subject # s
          /\ table[k.case].open => k.open
    /\ \A i \in 1..Len(table) : table[i].subject \in DOMAIN screen

LEMMA ScreenShape ==
    ASSUME NEW screen
    PROVE  screen \in Screen <=>
             DOMAIN screen \in SUBSET Order /\ screen \in [DOMAIN screen -> [case : Nat, open : BOOLEAN]]
BY DEF Screen

\* The exceptions of a batch are entries, of its orders.
LEMMA ExceptionShape ==
    ASSUME NEW b \in Batch
    PROVE  /\ Exceptions(b) \in SUBSET Entry
           /\ \A o \in OrdersOf[b] : Reason(b, o) # "none" =>
                [subject |-> o, reason |-> Reason(b, o)] \in Exceptions(b)
<1>1. OrdersOf[b] \subseteq Order
  BY DEF Order
<1>2. \A o \in OrdersOf[b] : Reason(b, o) # "none" => Reason(b, o) \in Reasons
  BY DEF Reason, Reasons
<1> QED
  BY <1>1, <1>2 DEF Exceptions, Entry

LEMMA RankShape ==
    ASSUME NEW e \in Entry
    PROVE  Rank(e) \in Nat
<1>1. \E i \in 1..Len(REASON_PRECEDENCE) : REASON_PRECEDENCE[i] = e.reason
  <2>1. Len(REASON_PRECEDENCE) = 4
    BY DEF REASON_PRECEDENCE
  <2>2. /\ REASON_PRECEDENCE[2] = "POLICY_ESCALATION" /\ REASON_PRECEDENCE[3] = "AMBIGUOUS_MATCH"
        /\ REASON_PRECEDENCE[4] = "POLICY_HOLD"
    BY DEF REASON_PRECEDENCE
  <2>3. e.reason \in Reasons
    BY DEF Entry
  <2> QED
    BY <2>1, <2>2, <2>3 DEF Reasons
<1>2. Rank(e) \in 1..Len(REASON_PRECEDENCE)
  BY <1>1 DEF Rank
<1>3. Len(REASON_PRECEDENCE) \in Nat
  BY DEF REASON_PRECEDENCE
<1> QED
  BY <1>2, <1>3

\* Entries have a first, by rank and then by subject.
LEMMA FirstIsMember ==
    ASSUME NEW todo \in SUBSET Entry, todo # {}
    PROVE  FirstOf(todo) \in todo
<1> DEFINE R == {Rank(e) : e \in todo}
           T == {e.subject : e \in {d \in todo : Rank(d) = Min(R)}}
<1>1. \A e \in todo : Rank(e) \in Nat /\ e.subject \in Nat
  BY RankShape, BundleConstants DEF BundleConstants, Entry
<1>2. R \in SUBSET Nat /\ R # {}
  BY <1>1
<1>3. Min(R) \in R /\ \A r \in R : Min(R) =< r
  BY <1>2, LeastNatural
<1>4. T \in SUBSET Nat /\ T # {}
  BY <1>1, <1>3
<1>5. Min(T) \in T /\ \A t \in T : Min(T) =< t
  BY <1>4, LeastNatural
<1>6. PICK e \in todo : Rank(e) = Min(R) /\ e.subject = Min(T)
  BY <1>5
<1>7. ASSUME NEW d \in todo
      PROVE  Rank(e) < Rank(d) \/ (Rank(e) = Rank(d) /\ e.subject =< d.subject)
  <2>1. Rank(e) =< Rank(d)
    BY <1>3, <1>6
  <2>2. Rank(d) = Rank(e) => e.subject =< d.subject
    BY <1>5, <1>6
  <2> QED
    BY <1>1, <2>1, <2>2
<1> QED
  BY <1>7 DEF FirstOf

\* open_case leaves what there is, and there is a case afterwards.
LEMMA OpenedShape ==
    ASSUME TableOK(cases), NEW e \in Entry
    PROVE  /\ TableOK(Opened(e)) /\ Holds(Opened(e), e)
           /\ \A d \in Entry : Holds(cases, d) => Holds(Opened(e), d)
<1> DEFINE row == [subject |-> e.subject, reason |-> e.reason, open |-> TRUE]
<1>1. CASE Holds(cases, e)
  <2>1. Opened(e) = cases
    BY <1>1 DEF Opened, Holds
  <2> QED
    BY <1>1, <2>1
<1>2. CASE ~Holds(cases, e)
  <2>1. Opened(e) = Append(cases, row)
    BY <1>2 DEF Opened, Holds
  <2>2. row \in Row /\ row.subject = e.subject /\ row.reason = e.reason
    BY DEF Entry, Row
  <2>3. cases \in Seq(Row)
    BY DEF TableOK
  <2> HIDE DEF row
  <2>4. /\ Opened(e) \in Seq(Row) /\ Len(Opened(e)) = Len(cases) + 1 /\ Len(cases) \in Nat
        /\ \A i \in 1..Len(cases) : Opened(e)[i] = cases[i]
        /\ Opened(e)[Len(cases) + 1] = row
    BY <2>1, <2>2, <2>3
  <2>5. ASSUME NEW i \in 1..Len(Opened(e)), NEW j \in 1..Len(Opened(e)), i # j
        PROVE  Opened(e)[i].subject # Opened(e)[j].subject
                 \/ Opened(e)[i].reason # Opened(e)[j].reason
    <3>1. CASE i \in 1..Len(cases) /\ j \in 1..Len(cases)
      BY <2>4, <2>5, <3>1 DEF TableOK
    <3>2. CASE i \in 1..Len(cases) /\ j = Len(cases) + 1
      BY <1>2, <2>2, <2>4, <3>2 DEF Holds
    <3>3. CASE i = Len(cases) + 1 /\ j \in 1..Len(cases)
      BY <1>2, <2>2, <2>4, <3>3 DEF Holds
    <3> QED
      BY <2>4, <2>5, <3>1, <3>2, <3>3
  <2>6. TableOK(Opened(e))
    BY <2>4, <2>5 DEF TableOK
  <2>7. Holds(Opened(e), e)
    BY <2>2, <2>4 DEF Holds
  <2>8. ASSUME NEW d \in Entry, Holds(cases, d) PROVE Holds(Opened(e), d)
    <3>1. PICK i \in 1..Len(cases) : cases[i].subject = d.subject /\ cases[i].reason = d.reason
      BY <2>8 DEF Holds
    <3>2. i \in 1..Len(Opened(e)) /\ Opened(e)[i] = cases[i]
      BY <2>4
    <3> QED
      BY <3>1, <3>2 DEF Holds
  <2> QED
    BY <2>6, <2>7, <2>8
<1> QED
  BY <1>1, <1>2

\* The screen a server makes shows the table.
LEMMA LastCasesShow ==
    ASSUME TableOK(cases)
    PROVE  Shows(LastCases, cases)
<1> DEFINE D == {cases[i].subject : i \in 1..Len(cases)}
           At(s) == {j \in 1..Len(cases) : cases[j].subject = s}
<1>1. /\ Len(cases) \in Nat
      /\ \A i \in 1..Len(cases) : cases[i] \in Row /\ cases[i].subject \in Order
  <2>1. cases \in Seq(Row)
    BY DEF TableOK
  <2>2. Len(cases) \in Nat /\ \A i \in 1..Len(cases) : cases[i] \in Row
    BY <2>1
  <2>3. \A row \in Row : row.subject \in Order
    BY DEF Row
  <2> QED
    BY <2>2, <2>3
<1>2. D \in SUBSET Order
  BY <1>1
<1>3. ASSUME NEW s \in D
      PROVE  /\ Max(At(s)) \in 1..Len(cases) /\ cases[Max(At(s))].subject = s
             /\ \A j \in (Max(At(s)) + 1)..Len(cases) : cases[j].subject # s
             /\ LastCases[s] = [case |-> Max(At(s)), open |-> cases[Max(At(s))].open]
  <2>1. At(s) \in SUBSET (1..Len(cases)) /\ At(s) # {}
    OBVIOUS
  <2>2. Max(At(s)) \in At(s) /\ \A j \in At(s) : Max(At(s)) >= j
    <3> HIDE DEF At
    <3> QED
      BY <1>1, <2>1, GreatestNatural
  <2>3. LastCases[s] = [case |-> Max(At(s)), open |-> cases[Max(At(s))].open]
    BY DEF LastCases
  <2>4. ASSUME NEW j \in (Max(At(s)) + 1)..Len(cases) PROVE cases[j].subject # s
    <3>1. j \in 1..Len(cases) /\ ~(Max(At(s)) >= j)
      <4> HIDE DEF At
      <4>1. Max(At(s)) \in 1..Len(cases)
        BY <2>1, <2>2
      <4> QED
        BY <1>1, <4>1, <2>4
    <3> QED
      BY <2>2, <3>1
  <2> QED
    BY <2>2, <2>3, <2>4
<1>4. DOMAIN LastCases = D
  BY DEF LastCases
<1> HIDE DEF D, At
<1>5. ASSUME NEW s \in D
      PROVE  /\ LastCases[s] \in [case : Nat, open : BOOLEAN]
             /\ LastCases[s].case = Max(At(s)) /\ LastCases[s].open = cases[Max(At(s))].open
  <2>1. /\ Max(At(s)) \in 1..Len(cases)
        /\ LastCases[s] = [case |-> Max(At(s)), open |-> cases[Max(At(s))].open]
    BY <1>3
  <2>2. cases[Max(At(s))].open \in BOOLEAN
    BY <1>1, <2>1 DEF Row
  <2> QED
    BY <1>1, <2>1, <2>2
<1>6. LastCases \in Screen
  <2>1. LastCases \in [D -> [case : Nat, open : BOOLEAN]]
    <3>1. LastCases = [s \in D |-> LastCases[s]]
      BY DEF LastCases, D
    <3> QED
      BY <1>5, <3>1
  <2> QED
    BY <1>2, <2>1 DEF Screen
<1>7. \A i \in 1..Len(cases) : cases[i].subject \in D
  BY DEF D
<1> QED
  BY <1>3, <1>4, <1>5, <1>6, <1>7 DEF Shows

\* A case is closed and the screen is not told, or is.
LEMMA ClosedElsewhere ==
    ASSUME NEW table, TableOK(table), NEW i \in 1..Len(table)
    PROVE  /\ TableOK([table EXCEPT ![i].open = FALSE])
           /\ \A e : Holds(table, e) => Holds([table EXCEPT ![i].open = FALSE], e)
           /\ \A screen : Shows(screen, table) => Shows(screen, [table EXCEPT ![i].open = FALSE])
<1> DEFINE new == [table EXCEPT ![i].open = FALSE]
<1>1. table \in Seq(Row) /\ Len(table) \in Nat
  BY DEF TableOK
<1>2. /\ new \in Seq(Row) /\ Len(new) = Len(table)
      /\ \A j \in 1..Len(table) :
            /\ new[j].subject = table[j].subject /\ new[j].reason = table[j].reason
            /\ new[j].open => table[j].open
  <2> DEFINE closed == [table[i] EXCEPT !.open = FALSE]
  <2>1. table[i] \in Row
    BY <1>1
  <2>2. closed \in Row
    BY <2>1 DEF Row
  <2>3. new = [table EXCEPT ![i] = closed]
    OBVIOUS
  <2>4. closed.subject = table[i].subject /\ closed.reason = table[i].reason /\ ~closed.open
    BY <2>1 DEF Row
  <2> HIDE DEF closed, new
  <2>5. /\ new \in Seq(Row) /\ Len(new) = Len(table)
        /\ \A j \in 1..Len(table) : new[j] = IF j = i THEN closed ELSE table[j]
    BY <1>1, <2>2, <2>3, ExceptSeq
  <2>6. ASSUME NEW j \in 1..Len(table)
        PROVE  /\ new[j].subject = table[j].subject /\ new[j].reason = table[j].reason
               /\ new[j].open => table[j].open
    BY <2>4, <2>5
  <2> QED
    BY <2>5, <2>6
<1> HIDE DEF new
<1>3. TableOK(new)
  BY <1>2 DEF TableOK
<1>4. ASSUME NEW e, Holds(table, e) PROVE Holds(new, e)
  BY <1>2, <1>4 DEF Holds
<1>5. ASSUME NEW screen, Shows(screen, table) PROVE Shows(screen, new)
  <2>1. ASSUME NEW s \in DOMAIN screen
        PROVE  /\ screen[s].case \in 1..Len(new) /\ new[screen[s].case].subject = s
               /\ \A j \in (screen[s].case + 1)..Len(new) : new[j].subject # s
               /\ new[screen[s].case].open => screen[s].open
    <3>1. /\ screen[s].case \in 1..Len(table) /\ table[screen[s].case].subject = s
          /\ \A j \in (screen[s].case + 1)..Len(table) : table[j].subject # s
          /\ table[screen[s].case].open => screen[s].open
      BY <1>5 DEF Shows
    <3> QED
      BY <1>1, <1>2, <3>1
  <2> QED
    BY <1>2, <1>5, <2>1 DEF Shows
<1> QED
  BY <1>3, <1>4, <1>5 DEF new

LEMMA ClosedHere ==
    ASSUME NEW table, NEW screen, TableOK(table), Shows(screen, table), NEW o \in DOMAIN screen
    PROVE  Shows([screen EXCEPT ![o].open = FALSE],
                 [table EXCEPT ![screen[o].case].open = FALSE])
<1> DEFINE new == [table EXCEPT ![screen[o].case].open = FALSE]
           now == [screen EXCEPT ![o].open = FALSE]
<1>1. screen[o].case \in 1..Len(table) /\ screen \in Screen
  BY DEF Shows
<1>2. Shows(screen, new)
  BY <1>1, ClosedElsewhere
<1>3. DOMAIN screen \in SUBSET Order /\ screen \in [DOMAIN screen -> [case : Nat, open : BOOLEAN]]
  BY <1>1, ScreenShape
<1>4. new[screen[o].case].open = FALSE
  BY <1>1 DEF TableOK, Row
<1>5. /\ DOMAIN now = DOMAIN screen /\ now \in [DOMAIN screen -> [case : Nat, open : BOOLEAN]]
      /\ \A s \in DOMAIN screen : now[s].case = screen[s].case /\ (s # o => now[s].open = screen[s].open)
  BY <1>3
<1>6. now \in Screen
  BY <1>3, <1>5, ScreenShape
<1> HIDE DEF new, now
<1>7. ASSUME NEW s \in DOMAIN now
      PROVE  /\ now[s].case \in 1..Len(new) /\ new[now[s].case].subject = s
             /\ \A j \in (now[s].case + 1)..Len(new) : new[j].subject # s
             /\ new[now[s].case].open => now[s].open
  <2>1. now[s].case = screen[s].case /\ s \in DOMAIN screen /\ (s # o => now[s].open = screen[s].open)
    BY <1>5
  <2> QED
    BY <1>2, <1>4, <2>1 DEF Shows
<1> QED
  BY <1>2, <1>5, <1>6, <1>7 DEF Shows, new, now

-----------------------------------------------------------------------------
(* The server.                                                              *)

Loaded == UNION {[D -> Issued] : D \in SUBSET Order}

Opening == [pc : {"opening"}, batch : Batch, expects : Setting \cup {None}, todo : SUBSET Entry]
Page == [pc : {"reading", "ready"}, batch : Batch, expects : Setting \cup {None},
         cases : Screen, certificates : Loaded, unread : SUBSET Order]

\* A server opens the cases of its exceptions before it reads them, and a
\* certificate it has read is the one named by its file.
OpeningInv ==
    server.pc = "opening" =>
        \A e \in Exceptions(server.batch) \ server.todo : Holds(cases, e)
PageInv ==
    server.pc \in {"reading", "ready"} =>
        /\ \A o \in DOMAIN server.certificates : server.certificates[o].order = o
        /\ \A e \in Exceptions(server.batch) : Holds(cases, e)
        /\ Shows(server.cases, cases)

ServerInv ==
    /\ server \in Opening \cup Page \cup {NoServer}
    /\ OpeningInv /\ PageInv

CloseInv ==
    /\ BundleInv /\ sources \in Batch \cup {None}
    /\ verifier.pc \in {"idle", "opened", "loaded", "valid", "invalid"}
    /\ TableOK(cases) /\ ServerInv

LEMMA LoadedShape ==
    ASSUME NEW loaded
    PROVE  loaded \in Loaded <=> DOMAIN loaded \in SUBSET Order /\ loaded \in [DOMAIN loaded -> Issued]
BY DEF Loaded

LEMMA PageShape ==
    ASSUME ServerInv, server.pc \in {"reading", "ready"}
    PROVE  /\ server \in Page
           /\ server.batch \in Batch /\ server.expects \in Setting \cup {None}
           /\ server.cases \in Screen /\ server.certificates \in Loaded
           /\ server.unread \in SUBSET Order
<1>1. server \in Page
  BY DEF ServerInv, Opening, NoServer
<1> QED
  BY <1>1 DEF Page

LEMMA OpeningShape ==
    ASSUME ServerInv, server.pc = "opening"
    PROVE  /\ server \in Opening
           /\ server.batch \in Batch /\ server.expects \in Setting \cup {None}
           /\ server.todo \in SUBSET Entry
<1>1. server \in Opening
  BY DEF ServerInv, Page, NoServer
<1> QED
  BY <1>1 DEF Opening

LEMMA StartKeepsInv ==
    ASSUME NEW b \in Batch, NEW e \in Setting \cup {None}, server' = Starting(b, e)
    PROVE  ServerInv'
<1>1. Exceptions(b) \in SUBSET Entry
  BY ExceptionShape
<1>2. /\ server'.pc = "opening" /\ server'.batch = b /\ server'.todo = Exceptions(b)
      /\ server' \in Opening
  BY <1>1 DEF Starting, Opening
<1> QED
  BY <1>2 DEF ServerInv, OpeningInv, PageInv

LEMMA OpenCaseKeepsInv ==
    ASSUME TableOK(cases), ServerInv, OpenCase
    PROVE  TableOK(cases') /\ ServerInv'
<1> DEFINE e == FirstOf(server.todo)
<1>1. /\ server \in Opening /\ server.batch \in Batch /\ server.todo \in SUBSET Entry
      /\ server.todo # {} /\ server.pc = "opening"
  BY OpeningShape DEF OpenCase
<1>2. cases' = Opened(e) /\ server' = [server EXCEPT !.todo = server.todo \ {e}]
  BY DEF OpenCase
<1>3. e \in server.todo /\ e \in Entry
  BY <1>1, FirstIsMember
<1> HIDE DEF e
<1>4. /\ TableOK(cases') /\ Holds(cases', e)
      /\ \A d \in Entry : Holds(cases, d) => Holds(cases', d)
  BY <1>2, <1>3, OpenedShape
<1>5. /\ server' \in Opening /\ server'.batch = server.batch /\ server'.pc = "opening"
      /\ server'.todo = server.todo \ {e}
  BY <1>1, <1>2 DEF Opening
<1>6. ASSUME NEW d \in Exceptions(server.batch) \ server'.todo PROVE Holds(cases', d)
  <2>1. d \in Entry
    BY <1>1, ExceptionShape
  <2>2. CASE d = e
    BY <1>4, <2>2
  <2>3. CASE d \notin server.todo
    BY <1>1, <1>4, <2>1, <2>3 DEF ServerInv, OpeningInv
  <2> QED
    BY <1>5, <2>2, <2>3
<1> QED
  BY <1>4, <1>5, <1>6 DEF ServerInv, OpeningInv, PageInv

LEMMA ListFilesKeepsInv ==
    ASSUME TableOK(cases), ServerInv, ListFiles
    PROVE  ServerInv'
<1>1. /\ server.pc = "opening" /\ server.todo = {} /\ cases' = cases
      /\ server.batch \in Batch /\ server.expects \in Setting \cup {None}
  BY OpeningShape DEF ListFiles
<1>2. Shows(LastCases, cases) /\ LastCases \in Screen
  BY LastCasesShow DEF Shows
<1>3. <<>> \in Loaded /\ DOMAIN <<>> = {}
  <2>1. DOMAIN <<>> = {} /\ <<>> \in Seq(Issued) /\ Len(<<>>) = 0
    OBVIOUS
  <2>2. <<>> \in [DOMAIN <<>> -> Issued]
    BY <2>1
  <2> QED
    BY <2>1, <2>2, LoadedShape
<1>4. /\ server'.pc = "reading" /\ server'.batch = server.batch
      /\ server'.cases = LastCases /\ server'.certificates = <<>>
  BY DEF ListFiles
<1>5. server' \in Page
  BY <1>1, <1>2, <1>3 DEF ListFiles, Page
<1>6. \A e \in Exceptions(server.batch) : Holds(cases, e)
  BY <1>1 DEF ServerInv, OpeningInv
<1> QED
  BY <1>1, <1>2, <1>3, <1>4, <1>5, <1>6 DEF ServerInv, OpeningInv, PageInv

LEMMA ReadFileKeepsInv ==
    ASSUME FilesAreIssued, ServerInv, ReadFile
    PROVE  ServerInv'
<1> DEFINE o == Min(server.unread)
           loaded == server.certificates
           more == [p \in DOMAIN loaded \cup {o} |-> IF p = o THEN files[o] ELSE loaded[p]]
<1>1. /\ server.pc = "reading" /\ server.unread # {} /\ cases' = cases
      /\ server \in Page /\ server.unread \in SUBSET Order /\ loaded \in Loaded
  BY PageShape DEF ReadFile
<1>2. server' = [server EXCEPT !.unread = server.unread \ {o},
                               !.certificates = IF files[o] = None THEN loaded ELSE more]
  BY DEF ReadFile
<1>3. o \in Order
  BY <1>1, LeastOrder
<1> HIDE DEF o
<1>4. DOMAIN loaded \in SUBSET Order /\ loaded \in [DOMAIN loaded -> Issued]
  BY <1>1, LoadedShape
<1>5. \A p \in DOMAIN loaded : loaded[p].order = p
  BY <1>1 DEF ServerInv, PageInv
<1> HIDE DEF loaded
<1>6. ASSUME files[o] # None
      PROVE  more \in Loaded /\ \A p \in DOMAIN more : more[p].order = p
  <2>1. files[o] \in Issued /\ files[o].order = o
    BY <1>3, <1>6 DEF FilesAreIssued
  <2>2. DOMAIN more = DOMAIN loaded \cup {o}
    OBVIOUS
  <2>3. more \in [DOMAIN more -> Issued] /\ \A p \in DOMAIN more : more[p].order = p
    BY <1>4, <1>5, <2>1
  <2> QED
    BY <1>3, <1>4, <2>2, <2>3, LoadedShape
<1> HIDE DEF more
<1>7. /\ server'.certificates \in Loaded
      /\ \A p \in DOMAIN server'.certificates : server'.certificates[p].order = p
  <2>1. server'.certificates = IF files[o] = None THEN loaded ELSE more
    BY <1>1, <1>2 DEF Page
  <2> QED
    BY <1>1, <1>5, <1>6, <2>1
<1>8. /\ server'.pc = "reading" /\ server'.batch = server.batch /\ server'.cases = server.cases
      /\ server'.expects = server.expects /\ server'.unread = server.unread \ {o}
  BY <1>1, <1>2 DEF Page
<1>9. server' \in Page
  BY <1>1, <1>2, <1>7 DEF Page
<1> QED
  BY <1>1, <1>7, <1>8, <1>9 DEF ServerInv, OpeningInv, PageInv

LEMMA ShowKeepsInv == ASSUME ServerInv, Show PROVE ServerInv'
<1>1. /\ server.pc = "reading" /\ server \in Page /\ cases' = cases
      /\ server' = [server EXCEPT !.pc = "ready"]
  BY PageShape DEF Show
<1>2. /\ server' \in Page /\ server'.pc = "ready" /\ server'.batch = server.batch
      /\ server'.cases = server.cases /\ server'.certificates = server.certificates
  BY <1>1 DEF Page
<1> QED
  BY <1>1, <1>2 DEF ServerInv, OpeningInv, PageInv

LEMMA ScreenResolvesKeepsInv ==
    ASSUME TableOK(cases), ServerInv, NEW o \in Order, ScreenResolves(o)
    PROVE  TableOK(cases') /\ ServerInv'
<1> DEFINE now == [server.cases EXCEPT ![o].open = FALSE]
           i == server.cases[o].case
<1>1. /\ server.pc = "ready" /\ server \in Page /\ o \in DOMAIN server.cases
      /\ Shows(server.cases, cases)
      /\ cases' = [cases EXCEPT ![i].open = FALSE]
  BY PageShape DEF ScreenResolves, ServerInv, PageInv
<1>2. server' = [server EXCEPT !.cases = now]
  BY DEF ScreenResolves
<1>3. i \in 1..Len(cases)
  BY <1>1 DEF Shows
<1>4. Shows(now, cases')
  BY <1>1, ClosedHere
<1>5. TableOK(cases') /\ \A e : Holds(cases, e) => Holds(cases', e)
  BY <1>1, <1>3, ClosedElsewhere
<1>6. now \in Screen
  BY <1>4 DEF Shows
<1> HIDE DEF now, i
<1>7. /\ server' \in Page /\ server'.pc = "ready" /\ server'.batch = server.batch
      /\ server'.cases = now /\ server'.certificates = server.certificates
  BY <1>1, <1>2, <1>6 DEF Page
<1> QED
  BY <1>1, <1>4, <1>5, <1>7 DEF ServerInv, OpeningInv, PageInv

LEMMA McpClosesKeepsInv ==
    ASSUME TableOK(cases), ServerInv, NEW i \in 1..Len(cases), McpCloses(i)
    PROVE  TableOK(cases') /\ ServerInv'
<1>1. cases' = [cases EXCEPT ![i].open = FALSE] /\ server' = server
  BY DEF McpCloses
<1>2. /\ TableOK(cases') /\ \A e : Holds(cases, e) => Holds(cases', e)
      /\ \A screen : Shows(screen, cases) => Shows(screen, cases')
  BY <1>1, ClosedElsewhere
<1> QED
  BY <1>1, <1>2 DEF ServerInv, OpeningInv, PageInv

LEMMA CloseStarts == Init => CloseInv
<1> SUFFICES ASSUME Init PROVE CloseInv
  OBVIOUS
<1>1. TableOK(<<>>)
  BY DEF TableOK
<1>2. ServerInv
  BY DEF Init, NoServer, ServerInv, OpeningInv, PageInv
<1> QED
  BY <1>1, <1>2, BundleStarts DEF Init, NoVerifier, CloseInv

LEMMA CloseStep == CloseInv /\ [Next]_vars => CloseInv'
<1> SUFFICES ASSUME CloseInv, [Next]_vars PROVE CloseInv'
  OBVIOUS
<1> USE DEF CloseInv
<1>1. BundleInv'
  BY BundleStep
<1>2. ASSUME server' = server, cases' = cases PROVE TableOK(cases') /\ ServerInv'
  BY <1>2 DEF ServerInv, OpeningInv, PageInv
<1>3. ASSUME NEW close \in Closes, Generate(close) PROVE CloseInv'
  BY <1>1, <1>2, <1>3, CloseShape DEF Generate
<1>4. ASSUME \/ RunStep \/ RunEnds \/ Answer \/ LoadSources
             \/ \E o \in Order, given \in Setting \cup {None} : OpenCertificate(o, given)
      PROVE  CloseInv'
  BY <1>1, <1>2, <1>4 DEF RunStep, RunEnds, Answer, LoadSources, OpenCertificate
<1>5. ASSUME ServeOwn PROVE CloseInv'
  <2>1. writer.close.batch \in Batch /\ writer.close.setting \in Setting
    BY <1>5, WriterShape, CloseShape DEF ServeOwn, BundleInv
  <2> QED
    BY <1>1, <1>5, <2>1, StartKeepsInv DEF ServeOwn
<1>6. ASSUME ServeDir PROVE CloseInv'
  BY <1>1, <1>6, StartKeepsInv DEF ServeDir
<1>7. ASSUME OpenCase PROVE CloseInv'
  BY <1>1, <1>7, OpenCaseKeepsInv DEF OpenCase
<1>8. ASSUME ListFiles PROVE CloseInv'
  BY <1>1, <1>8, ListFilesKeepsInv DEF ListFiles
<1>9. ASSUME ReadFile PROVE CloseInv'
  BY <1>1, <1>9, ReadFileKeepsInv DEF ReadFile, BundleInv
<1>10. ASSUME Show PROVE CloseInv'
  BY <1>1, <1>10, ShowKeepsInv DEF Show
<1>11. ASSUME ServerDies PROVE CloseInv'
  BY <1>1, <1>11 DEF ServerDies, NoServer, ServerInv, OpeningInv, PageInv
<1>12. ASSUME NEW o \in Order, ScreenResolves(o) PROVE CloseInv'
  BY <1>1, <1>12, ScreenResolvesKeepsInv DEF ScreenResolves
<1>13. ASSUME NEW i \in 1..Len(cases), McpCloses(i) PROVE CloseInv'
  BY <1>1, <1>13, McpClosesKeepsInv DEF McpCloses
<1>14. CASE UNCHANGED vars
  BY <1>1, <1>2, <1>14 DEF vars
<1> QED
  BY <1>3, <1>4, <1>5, <1>6, <1>7, <1>8, <1>9, <1>10, <1>11, <1>12, <1>13, <1>14 DEF Next

-----------------------------------------------------------------------------
(* The sign-off.                                                            *)

LEMMA CloseInvIsInvariant == Spec => []CloseInv
BY CloseStarts, CloseStep, PTL DEF Spec

(***************************************************************************)
(* The types, and that no server ever opens a second case for a subject    *)
(* and a reason, however many died over the same batch (open_case).        *)
(***************************************************************************)
THEOREM CloseIsTyped == Spec => []TypeOK
<1>1. CloseInv => TypeOK
  <2> SUFFICES ASSUME CloseInv PROVE TypeOK
    OBVIOUS
  <2>1. files \in [Order -> Certificate \cup {None}]
    <3>1. \A o \in Order : files[o] \in Certificate \cup {None}
      BY IssuedShape DEF CloseInv, BundleInv, FilesAreIssued
    <3> QED
      BY <3>1 DEF CloseInv, BundleInv, FilesAreIssued
  <2>2. writer.pc \in {"idle", "build", "replace", "issued"}
    BY DEF CloseInv, BundleInv, WriterInv, ActiveWriter, NoWriter
  <2>3. server.pc \in {"down", "opening", "reading", "ready"}
    BY DEF CloseInv, ServerInv, Opening, Page, NoServer
  <2> QED
    BY <2>1, <2>2, <2>3 DEF CloseInv, BundleInv, FilesAreIssued, TableOK, TypeOK
<1> QED
  BY <1>1, CloseInvIsInvariant, PTL

\* No more certificates than the page verifies: all are verified.
LEMMA SampleIsAll ==
    ASSUME NEW loaded, IsFiniteSet(DOMAIN loaded), DOMAIN loaded \subseteq Nat,
           Cardinality(DOMAIN loaded) =< UI_VERIFY_SAMPLE
    PROVE  Sample(loaded) = DOMAIN loaded
<1> DEFINE D == DOMAIN loaded
           Below(o) == {p \in D : p < o}
<1>1. ASSUME NEW o \in D PROVE Cardinality(Below(o)) < UI_VERIFY_SAMPLE
  <2>1. Below(o) \in SUBSET D /\ Below(o) # D
    OBVIOUS
  <2> HIDE DEF Below
  <2>2. Cardinality(Below(o)) =< Cardinality(D) /\ Cardinality(D) # Cardinality(Below(o))
    BY <2>1, FS_Subset
  <2>3. Cardinality(Below(o)) \in Nat /\ Cardinality(D) \in Nat
    BY <2>1, FS_Subset, FS_CardinalityType
  <2> QED
    BY <2>2, <2>3, CloseConstants DEF CloseConstants
<1> QED
  BY <1>1 DEF Sample

\* What is not blocked is complete, and what was verified of it verifies.
LEMMA UnblockedMeans ==
    ASSUME NEW source, NEW risk, NEW certificates, NEW orders, NEW invalid,
           IsFiniteSet(orders), IsFiniteSet(DOMAIN certificates),
           Blockers(source, ProofSummary(certificates, orders, invalid), risk) = {}
    PROVE  orders \subseteq DOMAIN certificates /\ Sample(certificates) \cap invalid = {}
<1> DEFINE proofs == ProofSummary(certificates, orders, invalid)
           bad == Sample(certificates) \cap invalid
           missing == Missing(certificates, orders)
<1>1. IsFiniteSet(bad) /\ IsFiniteSet(missing)
  <2>1. bad \in SUBSET DOMAIN certificates /\ missing \in SUBSET orders
    BY DEF Sample, Missing
  <2> QED
    BY <2>1, FS_Subset
<1>2. ~(proofs.rejected > 0) /\ ~(proofs.unverified > 0)
  BY DEF Blockers
<1>3. proofs.rejected = Cardinality(bad) /\ proofs.unverified = Cardinality(missing)
  BY DEF ProofSummary
<1> HIDE DEF proofs, bad, missing
<1>4. bad = {} /\ missing = {}
  BY <1>1, <1>2, <1>3, FS_CardinalityType, FS_EmptySet
<1> QED
  BY <1>4 DEF bad, missing, Missing

\* The page verifies the least certificate it loaded.
LEMMA LeastIsSampled ==
    ASSUME NEW loaded, DOMAIN loaded # {}, DOMAIN loaded \subseteq Nat
    PROVE  Sample(loaded) # {}
<1> DEFINE o == Min(DOMAIN loaded)
<1>1. o \in DOMAIN loaded /\ \A p \in DOMAIN loaded : o =< p
  BY LeastNatural
<1> HIDE DEF o
<1>2. {p \in DOMAIN loaded : p < o} = {}
  BY <1>1
<1>3. Cardinality({p \in DOMAIN loaded : p < o}) < UI_VERIFY_SAMPLE
  <2>1. Cardinality({}) < UI_VERIFY_SAMPLE
    BY FS_EmptySet, CloseConstants DEF CloseConstants
  <2> QED
    BY <1>2, <2>1
<1>4. o \in Sample(loaded)
  BY <1>1, <1>3 DEF Sample
<1> QED
  BY <1>4

LEMMA SignedMeansProved == CloseInv => SignedOnlyWhenProved
<1> SUFFICES ASSUME CloseInv, server.pc = "ready", Decision.status # "DO_NOT_SIGN"
             PROVE  LET loaded == DOMAIN server.certificates
                        b == server.batch
                    IN  /\ OrdersOf[b] \subseteq loaded
                        /\ OrdersOf[b] # {} => server.expects # None
                        /\ Cardinality(loaded) =< UI_VERIFY_SAMPLE =>
                             /\ loaded = OrdersOf[b]
                             /\ \A o \in loaded :
                                   server.certificates[o] =
                                       Issue([batch |-> b, setting |-> server.expects], o)
  BY DEF SignedOnlyWhenProved
<1> DEFINE certificates == server.certificates
           loaded == DOMAIN certificates
           b == server.batch
           invalid == {o \in loaded : ~Verifies(certificates[o], b, server.expects)}
<1>1. /\ b \in Batch /\ loaded \in SUBSET Order /\ certificates \in [loaded -> Issued]
      /\ \A o \in loaded : certificates[o].order = o
  BY PageShape, LoadedShape DEF CloseInv, ServerInv, PageInv
<1>2. /\ OrdersOf[b] \in SUBSET Order /\ Order \subseteq Nat
      /\ IsFiniteSet(loaded) /\ IsFiniteSet(OrdersOf[b])
  <2>1. OrdersOf[b] \in SUBSET Order
    BY <1>1 DEF Order
  <2> QED
    BY <1>1, <2>1, BundleConstants, FS_Subset DEF BundleConstants
<1>3. Blockers(Facts[b].source, ProofSummary(certificates, OrdersOf[b], invalid), Facts[b].risk) = {}
  BY DEF Decision, decide_signoff
<1> HIDE DEF loaded, certificates, b, invalid
<1>4. OrdersOf[b] \subseteq loaded /\ Sample(certificates) \cap invalid = {}
  BY <1>2, <1>3, UnblockedMeans DEF loaded
<1>5. OrdersOf[b] # {} => server.expects # None
  <2>1. Sample(certificates) \subseteq loaded
    BY DEF Sample, loaded
  <2>2. loaded # {} => Sample(certificates) # {}
    BY <1>1, <1>2, LeastIsSampled DEF loaded
  <2>3. server.expects = None => invalid = loaded
    BY DEF invalid, Verifies
  <2> QED
    BY <1>4, <2>1, <2>2, <2>3
<1>6. ASSUME Cardinality(loaded) =< UI_VERIFY_SAMPLE, NEW o \in loaded
      PROVE  /\ o \in OrdersOf[b]
             /\ certificates[o] = Issue([batch |-> b, setting |-> server.expects], o)
  <2>1. Sample(certificates) = loaded
    BY <1>1, <1>2, <1>6, SampleIsAll DEF loaded
  <2>2. Verifies(certificates[o], b, server.expects)
    BY <1>4, <2>1 DEF invalid
  <2>3. /\ certificates[o].close \in Closes /\ certificates[o].order = o
        /\ o \in OrdersOf[certificates[o].close.batch]
        /\ certificates[o] = Issue(certificates[o].close, o)
    BY <1>1, IssuedShape
  <2>4. certificates[o].close = [batch |-> b, setting |-> server.expects]
    BY <2>2, <2>3, CloseConstants DEF CloseConstants, Close, Verifies
  <2> QED
    BY <2>2, <2>3, <2>4 DEF Verifies
<1>7. Cardinality(loaded) =< UI_VERIFY_SAMPLE => loaded = OrdersOf[b]
  BY <1>4, <1>6
<1> QED
  BY <1>4, <1>5, <1>6, <1>7 DEF loaded, certificates, b

(***************************************************************************)
(* The controller signs over a complete bundle only, over a batch of       *)
(* orders only if the server knows its settings, and up to the size a page *)
(* verifies over certificates of this batch and these settings only,       *)
(* whatever was replaced, removed or left behind while the files were read *)
(* (load_certificates, verify_certificate, decide_signoff).                *)
(***************************************************************************)
THEOREM SignsOverProofsOnly == Spec => []SignedOnlyWhenProved
BY SignedMeansProved, CloseInvIsInvariant, PTL

\* An order waiting for a human is open on the screen.
LEMMA WaitingIsShown ==
    ASSUME CloseInv, server.pc = "ready", NEW o \in DOMAIN Held[server.batch],
           \A i \in {i \in 1..Len(cases) :
                        cases[i].subject = o /\ cases[i].reason = Reason(server.batch, o)} :
              cases[i].open /\ \A j \in (i + 1)..Len(cases) : cases[j].subject # o
    PROVE  o \in DOMAIN server.cases /\ server.cases[o].open
<1> DEFINE b == server.batch
           e == [subject |-> o, reason |-> Reason(b, o)]
<1>1. /\ b \in Batch /\ Shows(server.cases, cases) /\ \A d \in Exceptions(b) : Holds(cases, d)
  BY PageShape DEF CloseInv, ServerInv, PageInv
<1>2. o \in OrdersOf[b] /\ Outcome[b][o] = "HOLD"
  BY <1>1, CloseConstants DEF CloseConstants
<1>3. Reason(b, o) # "none"
  BY <1>2 DEF Reason
<1>4. e \in Exceptions(b)
  BY <1>1, <1>2, <1>3, ExceptionShape
<1>5. PICK i \in 1..Len(cases) : cases[i].subject = o /\ cases[i].reason = Reason(b, o)
  BY <1>1, <1>4 DEF Holds
<1>6. cases[i].open /\ \A j \in (i + 1)..Len(cases) : cases[j].subject # o
  BY <1>5
<1>7. o \in DOMAIN server.cases
  BY <1>1, <1>5 DEF Shows
<1> DEFINE k == server.cases[o].case
<1>8. /\ k \in 1..Len(cases) /\ cases[k].subject = o
      /\ \A j \in (k + 1)..Len(cases) : cases[j].subject # o
      /\ cases[k].open => server.cases[o].open
  BY <1>1, <1>7 DEF Shows
<1> HIDE DEF k
<1>9. Len(cases) \in Nat
  BY DEF CloseInv, TableOK
<1>10. k = i
  BY <1>5, <1>6, <1>8, <1>9
<1> QED
  BY <1>6, <1>7, <1>8, <1>10

LEMMA HeldIsCounted == CloseInv => HeldMoneyIsNamed
<1> SUFFICES ASSUME CloseInv, server.pc = "ready" PROVE HeldMoneyIsNamed
  BY DEF HeldMoneyIsNamed
<1> DEFINE b == server.batch
           own(o) == {i \in 1..Len(cases) :
                        cases[i].subject = o /\ cases[i].reason = Reason(b, o)}
           waiting == {o \in DOMAIN Held[b] : \A i \in own(o) :
                         /\ cases[i].open
                         /\ \A j \in (i + 1)..Len(cases) : cases[j].subject # o}
           counted == {s \in DOMAIN server.cases : server.cases[s].open} \cap DOMAIN Held[b]
<1>1. b \in Batch
  BY PageShape DEF CloseInv
<1>2. /\ DOMAIN Held[b] \subseteq Order /\ IsFiniteSet(DOMAIN Held[b])
      /\ \A o \in DOMAIN Held[b] : Held[b][o] \in Nat
  <2>1. OrdersOf[b] \in SUBSET Order
    BY <1>1 DEF Order
  <2>2. DOMAIN Held[b] \subseteq OrdersOf[b] /\ \A o \in DOMAIN Held[b] : Held[b][o] \in Nat
    BY <1>1, CloseConstants DEF CloseConstants
  <2>3. DOMAIN Held[b] \in SUBSET Order
    BY <2>1, <2>2
  <2> QED
    BY <2>2, <2>3, BundleConstants, FS_Subset DEF BundleConstants
<1>3. waiting \subseteq counted
  BY WaitingIsShown
<1>4. counted \in SUBSET DOMAIN Held[b] /\ waiting \in SUBSET DOMAIN Held[b]
  OBVIOUS
<1>5. /\ SumOf(Held[b], waiting) =< SumOf(Held[b], counted)
      /\ SumOf(Held[b], waiting) \in Nat /\ SumOf(Held[b], counted) \in Nat
  <2> HIDE DEF waiting, counted, b
  <2>1. /\ IsFiniteSet(counted) /\ IsFiniteSet(waiting)
        /\ \A o \in counted : Held[b][o] \in Nat
        /\ \A o \in waiting : Held[b][o] \in Nat
        /\ waiting \in SUBSET counted
    BY <1>2, <1>3, <1>4, FS_Subset
  <2> QED
    BY <2>1, SumGrows, SumSteps
<1>6. SumOf(Held[b], counted) >= MATERIAL_OPEN_PAISE
        => "MATERIAL_EXCEPTIONS_OPEN" \in Decision.caveats
  BY DEF Decision, decide_signoff, Caveats, ExceptionSummary, SumOf
<1>7. SumOf(Held[b], waiting) >= MATERIAL_OPEN_PAISE
        => "MATERIAL_EXCEPTIONS_OPEN" \in Decision.caveats
  <2> HIDE DEF waiting, counted, b
  <2> QED
    BY <1>5, <1>6, CloseConstants DEF CloseConstants
<1> QED
  BY <1>7 DEF HeldMoneyIsNamed, SumOf

(***************************************************************************)
(* Money held for a human is a caveat on the page: every held order whose  *)
(* own case is still open and not behind a later one counts, with or       *)
(* without servers that died between two cases (open_exception_cases,      *)
(* exception_summary).                                                     *)
(***************************************************************************)
THEOREM HeldMoneyIsACaveat == Spec => []HeldMoneyIsNamed
BY HeldIsCounted, CloseInvIsInvariant, PTL

=============================================================================
