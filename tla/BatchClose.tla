----------------------------- MODULE BatchClose -----------------------------
(***************************************************************************)
(* Closing a batch: a run generates the sources, writes the bundle and may *)
(* go on to serve it; `ui --dir` serves what it finds; verify-proof checks *)
(* a file.  A server opens the cases of its exceptions one by one, reads   *)
(* the certificates file by file, and shows the sign-off.  Any process may *)
(* die at any step, and others run in between.  A server over a directory  *)
(* looks for the bundle beside the sources, where an operator keeps both;  *)
(* the commands write them side by side only when told to.                 *)
(***************************************************************************)
EXTENDS ProofBundle, Sequences, SequencesExt

CONSTANTS
    Closes,         \* the runs there may be: batches under settings
    Ambiguous,      \* per batch, the orders with an ambiguous verdict
    Outcome,        \* per batch, what the gate decided for each order
    Held,           \* per batch, the amount of each order the gate holds
    Facts,          \* per batch, what else the sign-off reads
    MATERIAL_OPEN_PAISE, STALE_CASE_DAYS, UI_VERIFY_SAMPLE

INSTANCE Signoff

ASSUME CloseConstants ==
    /\ Closes \subseteq Close
    /\ \A b \in Batch : Ambiguous[b] \subseteq OrdersOf[b] /\ DOMAIN Outcome[b] = OrdersOf[b]
                        /\ DOMAIN Held[b] = {o \in OrdersOf[b] : Outcome[b][o] = "HOLD"}
                        /\ \A o \in DOMAIN Held[b] : Held[b][o] \in Nat
    /\ UI_VERIFY_SAMPLE \in Nat \ {0} /\ MATERIAL_OPEN_PAISE \in Nat /\ STALE_CASE_DAYS \in Nat

VARIABLES
    sources,    \* the batch in the batch directory
    verifier,   \* a verify-proof command
    server,     \* the workbench
    cases       \* the table of cases, in the order they were opened

vars == <<bundle, sources, verifier, server, cases>>

NoServer == [pc |-> "down"]
NoVerifier == [pc |-> "idle"]

Init ==
    /\ BundleInit /\ sources = None
    /\ verifier = NoVerifier /\ server = NoServer /\ cases = <<>>

-----------------------------------------------------------------------------
\* The run.

Generate(close) ==
    /\ writer.pc = "idle"
    /\ sources' = close.batch
    /\ writer' = [pc |-> "build", close |-> close, stale |-> {}, left |-> {}]
    /\ UNCHANGED <<files, manifest, verifier, server, cases>>

RunStep == (WriterStep \/ WriterDies) /\ UNCHANGED <<sources, verifier, server, cases>>

RunEnds ==
    /\ writer.pc = "issued" /\ writer' = NoWriter
    /\ UNCHANGED <<files, manifest, sources, verifier, server, cases>>

-----------------------------------------------------------------------------
\* verify-proof.  Bound: it is watched alone, as it shares nothing with a server.

OpenCertificate(o, given) ==
    /\ verifier.pc # "opened" /\ verifier.pc # "loaded"
    /\ server = NoServer /\ cases = <<>>
    /\ files[o] # None /\ sources # None
    /\ verifier' = [pc |-> "opened", certificate |-> files[o], given |-> given]
    /\ UNCHANGED <<bundle, sources, server, cases>>

LoadSources ==
    /\ verifier.pc = "opened"
    /\ verifier' = [pc |-> "loaded", certificate |-> verifier.certificate,
                    given |-> verifier.given, batch |-> sources]
    /\ UNCHANGED <<bundle, sources, server, cases>>

\* The manifest is read, if there is one, and the answer printed.
Answer ==
    /\ verifier.pc = "loaded"
    /\ verifier' = [pc |-> IF ProofValid(verifier.certificate, verifier.batch,
                                         verifier.given, manifest)
                           THEN "valid" ELSE "invalid"]
    /\ UNCHANGED <<bundle, sources, server, cases>>

-----------------------------------------------------------------------------
\* open_exception_cases: one reason per order, and an order of reasons.

REASON_PRECEDENCE == <<"PROOF_UNVERIFIED", "POLICY_ESCALATION", "AMBIGUOUS_MATCH", "POLICY_HOLD">>

Reason(b, o) ==
    IF o \in Ambiguous[b] THEN "AMBIGUOUS_MATCH"
    ELSE IF Outcome[b][o] = "ESCALATE" THEN "POLICY_ESCALATION"
    ELSE IF Outcome[b][o] = "HOLD" THEN "POLICY_HOLD" ELSE "none"

Exceptions(b) == {[subject |-> o, reason |-> Reason(b, o)] :
                    o \in {p \in OrdersOf[b] : Reason(b, p) # "none"}}

Rank(e) == CHOOSE i \in 1..Len(REASON_PRECEDENCE) : REASON_PRECEDENCE[i] = e.reason

FirstOf(todo) ==
    CHOOSE e \in todo : \A d \in todo :
        Rank(e) < Rank(d) \/ (Rank(e) = Rank(d) /\ e.subject =< d.subject)

\* Fault variant: the table is not asked for the case first.
OpenedAnew(e) == Append(cases, [subject |-> e.subject, reason |-> e.reason, open |-> TRUE])

\* open_case: the case of a subject and a reason, if there is one, stays as it is.
Opened(e) ==
    IF \E i \in 1..Len(cases) : cases[i].subject = e.subject /\ cases[i].reason = e.reason
    THEN cases
    ELSE Append(cases, [subject |-> e.subject, reason |-> e.reason, open |-> TRUE])

-----------------------------------------------------------------------------
\* The server.

Starting(batch, expects) ==
    [pc |-> "opening", batch |-> batch, expects |-> expects, todo |-> Exceptions(batch)]

\* `ui` goes on from its own run and knows the settings; `ui --dir` reconciles
\* what is in the directory and knows no calibration to expect.
ServeOwn ==
    /\ writer.pc = "issued" /\ server = NoServer /\ verifier = NoVerifier
    /\ writer' = NoWriter
    /\ server' = Starting(writer.close.batch, writer.close.setting)
    /\ UNCHANGED <<files, manifest, sources, verifier, cases>>

ServeDir ==
    /\ server = NoServer /\ verifier = NoVerifier /\ sources # None
    /\ server' = Starting(sources, None)
    /\ UNCHANGED <<bundle, sources, verifier, cases>>

OpenCase ==
    /\ server.pc = "opening" /\ server.todo # {}
    /\ LET e == FirstOf(server.todo) IN
          /\ cases' = Opened(e)
          /\ server' = [server EXCEPT !.todo = @ \ {e}]
    /\ UNCHANGED <<bundle, sources, verifier>>

\* Fault variant: of several cases of an order the screen keeps the first.
FirstCases ==
    [s \in {cases[i].subject : i \in 1..Len(cases)} |->
        LET i == Min({j \in 1..Len(cases) : cases[j].subject = s})
        IN  [case |-> i, open |-> cases[i].open]]

\* {c.order_id: c for c in store.list_cases()}: the case opened last of each subject.
LastCases ==
    [s \in {cases[i].subject : i \in 1..Len(cases)} |->
        LET i == Max({j \in 1..Len(cases) : cases[j].subject = s})
        IN  [case |-> i, open |-> cases[i].open]]

\* The cases are read, then the directory is listed.
ListFiles ==
    /\ server.pc = "opening" /\ server.todo = {}
    /\ server' = [pc |-> "reading", batch |-> server.batch, expects |-> server.expects,
                  cases |-> LastCases, certificates |-> <<>>,
                  unread |-> {o \in Order : files[o] # None}]
    /\ UNCHANGED <<bundle, sources, verifier, cases>>

\* load_certificates: a file gone since is passed over.
ReadFile ==
    /\ server.pc = "reading" /\ server.unread # {}
    /\ LET o == Min(server.unread)
           loaded == server.certificates
       IN  server' = [server EXCEPT
                        !.unread = @ \ {o},
                        !.certificates =
                            IF files[o] = None THEN loaded
                            ELSE [p \in DOMAIN loaded \cup {o} |->
                                    IF p = o THEN files[o] ELSE loaded[p]]]
    /\ UNCHANGED <<bundle, sources, verifier, cases>>

Show ==
    /\ server.pc = "reading" /\ server.unread = {}
    /\ server' = [server EXCEPT !.pc = "ready"]
    /\ UNCHANGED <<bundle, sources, verifier, cases>>

ServerDies == server # NoServer /\ server' = NoServer /\ UNCHANGED <<bundle, sources, verifier, cases>>

\* An answer on the screen closes the case it shows, or finds it closed and shows that.
ScreenResolves(o) ==
    /\ server.pc = "ready" /\ o \in DOMAIN server.cases /\ server.cases[o].open
    /\ server' = [server EXCEPT !.cases[o].open = FALSE]
    /\ cases' = [cases EXCEPT ![server.cases[o].case].open = FALSE]
    /\ UNCHANGED <<bundle, sources, verifier>>

\* A client of the MCP server closes a case; the screen is not told.
McpCloses(i) ==
    /\ cases[i].open
    /\ cases' = [cases EXCEPT ![i].open = FALSE]
    /\ UNCHANGED <<bundle, sources, verifier, server>>

\* build_panels and collect: the sign-off on the page.
Decision ==
    LET b == server.batch
        invalid == {o \in DOMAIN server.certificates :
                        ~Verifies(server.certificates[o], b, server.expects)}
    IN  decide_signoff(Facts[b].source,
                       ProofSummary(server.certificates, OrdersOf[b], invalid),
                       ExceptionSummary(server.cases, Held[b], Facts[b].age),
                       Facts[b].authority, Facts[b].risk)

Next ==
    \/ \E close \in Closes : Generate(close)
    \/ RunStep \/ RunEnds
    \/ \E o \in Order, given \in Setting \cup {None} : OpenCertificate(o, given)
    \/ LoadSources \/ Answer
    \/ ServeOwn \/ ServeDir \/ OpenCase \/ ListFiles \/ ReadFile \/ Show \/ ServerDies
    \/ \E o \in Order : ScreenResolves(o)
    \/ \E i \in 1..Len(cases) : McpCloses(i)

Spec == Init /\ [][Next]_vars

-----------------------------------------------------------------------------
\* Type correctness.
TypeOK ==
    /\ files \in [Order -> Certificate \cup {None}] /\ manifest \in Closes \cup {None}
    /\ \A o \in Order : files[o] # None => files[o].order = o
    /\ sources \in Batch \cup {None}
    /\ writer.pc \in {"idle", "build", "replace", "issued"}
    /\ verifier.pc \in {"idle", "opened", "loaded", "valid", "invalid"}
    /\ server.pc \in {"down", "opening", "reading", "ready"}
    /\ \A i, j \in 1..Len(cases) :
          i # j => cases[i].subject # cases[j].subject \/ cases[i].reason # cases[j].reason

\* The refinement: the manifest names a bundle, and all of it is in the files or not.
Register == INSTANCE BundleRegister WITH
    Bundle <- Closes, NoBundle <- None, issued <- manifest,
    whole <- \A c \in Names(manifest) : files[c.order] = c

\* write_proof_bundle issues a bundle only as a whole, whatever runs died before
\* it and whatever they left.
ImplementsRegister == Register!Spec

\* verify-proof calls a certificate valid only if it is of the batch in the sources
\* it read and of the bundle issued last: never one that a run wrote and did not
\* live to issue, nor one of the bundle before.  While no bundle was ever issued it
\* takes nobody's word for the settings but the caller's, and whenever the caller
\* names them, they are the certificate's (cli.py:728-746, verifier.py:629-635).
ValidMeansIssued ==
    [][(verifier.pc = "loaded" /\ verifier'.pc = "valid") =>
        LET close == verifier.certificate.close IN
        /\ close.batch = verifier.batch
        /\ manifest # None => close = manifest
        /\ manifest = None \/ verifier.given # None => verifier.given = close.setting]_vars

\* The controller does not sign over a proof that does not verify or is missing.
\* Every order of the batch shown has a certificate, and a server that knows no
\* settings, as over a directory, signs no batch that has orders; if no more were
\* loaded than the page verifies, they are this batch's, and of the settings the
\* server knows, although runs were replacing and removing the files while it read
\* them (panels.py:99-126, verifier.py:629-635).
SignedOnlyWhenProved ==
    (server.pc = "ready" /\ Decision.status # "DO_NOT_SIGN") =>
        LET loaded == DOMAIN server.certificates
            b == server.batch
        IN  /\ OrdersOf[b] \subseteq loaded
            /\ OrdersOf[b] # {} => server.expects # None
            /\ Cardinality(loaded) =< UI_VERIFY_SAMPLE =>
                 /\ loaded = OrdersOf[b]
                 /\ \A o \in loaded :
                       server.certificates[o] = Issue([batch |-> b, setting |-> server.expects], o)

\* "Money held for a human" is a caveat: when a page is shown, every held order
\* whose case nobody closed, or never got one, counts towards it, whatever server
\* died half-way through the exceptions; except for an order with a case opened
\* later, for another reason, behind which its own does not show.
HeldMoneyIsNamed ==
    server.pc = "ready" =>
        LET b == server.batch
            own(o) == {i \in 1..Len(cases) :
                         cases[i].subject = o /\ cases[i].reason = Reason(b, o)}
            waiting == {o \in DOMAIN Held[b] : \A i \in own(o) :
                          /\ cases[i].open
                          /\ \A j \in (i + 1)..Len(cases) : cases[j].subject # o}
        IN  MapThenSumSet(LAMBDA o : Held[b][o], waiting) >= MATERIAL_OPEN_PAISE
                => "MATERIAL_EXCEPTIONS_OPEN" \in Decision.caveats

=============================================================================
