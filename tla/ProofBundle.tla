---------------------------- MODULE ProofBundle ----------------------------
(***************************************************************************)
(* The proof bundle on disk: write_proof_bundle (certificates.py) replaces *)
(* one certificate file after the other and the manifest last;             *)
(* load_certificates (proof_tree.py) reads the files and ignores the       *)
(* manifest; verify-proof (cli.py) reads one file, the sources, and the    *)
(* manifest.  A certificate covers the root of its batch and the settings  *)
(* (configuration and calibration) it was decided under, so it is its      *)
(* order and these; what it says is Certificates' matter.  Every run that  *)
(* writes a bundle takes the full configuration, so settings differ in     *)
(* what they were calibrated on.                                           *)
(***************************************************************************)
EXTENDS Integers, FiniteSets, FiniteSetsExt

CONSTANTS
    Batch, Setting,
    OrdersOf,   \* the orders of a batch, numbered as their names sort
    Unbound,    \* per batch with finance events, the orders whose certificate binds none
    None        \* no file, no manifest, no expectation

Order == UNION {OrdersOf[b] : b \in Batch}
Close == [batch : Batch, setting : Setting]
Certificate == [order : Order, close : Close]

ASSUME BundleConstants ==
    /\ DOMAIN OrdersOf = Batch /\ Order \subseteq Nat /\ IsFiniteSet(Order)
    /\ \A b \in Batch : Unbound[b] \subseteq OrdersOf[b]
    /\ None \notin Close \cup Certificate \cup Setting

VARIABLES
    files,      \* the certificate file of each order
    manifest,   \* what proof-manifest.json was issued for; its entries follow
    writer      \* the run that writes the bundle

bundle == <<files, manifest, writer>>

\* The certificate of an order in a complete bundle, and a manifest's entries.
Issue(close, o) == [order |-> o, close |-> close]
Names(close) == IF close = None THEN {} ELSE {Issue(close, o) : o \in OrdersOf[close.batch]}

NoWriter == [pc |-> "idle"]

BundleInit == files = [o \in Order |-> None] /\ manifest = None /\ writer = NoWriter

\* The bundle is built in memory and the previous manifest read: the files of
\* its orders that are not written anew are to be removed.
Build ==
    /\ writer.pc = "build"
    /\ LET new == OrdersOf[writer.close.batch]
           old == {c.order : c \in Names(manifest)}
       IN  writer' = [writer EXCEPT !.pc = "replace", !.stale = old \ new, !.left = new]
    /\ UNCHANGED <<files, manifest>>

\* os.unlink of a stale file.
Unlink ==
    /\ writer.pc = "replace" /\ writer.stale # {}
    /\ \E o \in writer.stale :
          /\ files' = [files EXCEPT ![o] = None]
          /\ writer' = [writer EXCEPT !.stale = @ \ {o}]
    /\ UNCHANGED manifest

\* os.replace of the next certificate.
Replace ==
    /\ writer.pc = "replace" /\ writer.stale = {} /\ writer.left # {}
    /\ LET o == Min(writer.left) IN
          /\ files' = [files EXCEPT ![o] = Issue(writer.close, o)]
          /\ writer' = [writer EXCEPT !.left = @ \ {o}]
    /\ UNCHANGED manifest

\* Fault variant: the manifest may be replaced before the certificates are.
Ready(w) == w.pc = "replace" /\ w.stale = {}

\* Every certificate has its file.
AllReplaced(w) == w.pc = "replace" /\ w.stale = {} /\ w.left = {}

WriteManifest ==
    /\ AllReplaced(writer)
    /\ manifest' = writer.close
    /\ writer' = [writer EXCEPT !.pc = "issued"]
    /\ UNCHANGED files

WriterDies == writer.pc # "idle" /\ writer' = NoWriter /\ UNCHANGED <<files, manifest>>

WriterStep == Build \/ Unlink \/ Replace \/ WriteManifest

-----------------------------------------------------------------------------
\* Fault variant: settings that nobody expects are not compared.
VerifiesAnySetting(certificate, batch, expected) ==
    /\ certificate.close.batch = batch
    /\ expected # None => certificate.close.setting = expected

\* verify_certificate, as far as the bundle is concerned: the root of the batch
\* and the settings; if none are expected, it refuses.
Verifies(certificate, batch, expected) ==
    /\ certificate.close.batch = batch
    /\ expected # None
    /\ certificate.close.setting = expected

\* Fault variant: the manifest's hash of the certificate is not compared.
NamedUnchecked(certificate, current) == TRUE

\* MANIFEST_PROOF_MISMATCH is not raised: there is no manifest, or it has this hash.
NamedBy(certificate, current) == current = None \/ certificate \in Names(current)

\* The settings expected are those given on the command line, else the
\* manifest's.  Of the two options one alone is completed by the manifest; where
\* there is none, it is as good as no option.
Expected(given, current) ==
    IF given # None THEN given ELSE IF current = None THEN None ELSE current.setting

\* cmd_verify_proof on a certificate, options, sources and manifest it has read.
\* The finance events of the batch are left out of the root that it rebuilds
\* unless the certificate binds one of them.
ProofValid(certificate, batch, given, current) ==
    /\ Verifies(certificate, batch, Expected(given, current))
    /\ certificate.order \notin Unbound[batch]
    /\ NamedBy(certificate, current)

=============================================================================
