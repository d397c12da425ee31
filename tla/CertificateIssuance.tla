------------------------- MODULE CertificateIssuance -------------------------
(****************************************************************************)
(* How certificates are made: the creation of the authority at the server's  *)
(* start, and the requests that issue a certificate for one account, whose   *)
(* common name is also the name of the directory everything is written to.   *)
(*                                                                           *)
(* A request runs openssl in child processes and waits for them, so that     *)
(* other requests go on; what it does between two of them is one step. The   *)
(* answer takes a certificate to a device, the row takes its serial number   *)
(* to the database: revocation goes by the row.                              *)
(*                                                                           *)
(* Common names that are not safe, lifetimes and the text of the files are   *)
(* left out; expiry is told apart by days only (before or after the release  *)
(* that records serial numbers).                                             *)
(****************************************************************************)
EXTENDS Integers, Sequences

CONSTANTS
    Slots,        \* slots for requests under way
    Unknown,      \* the serial number of a row from before it was recorded
    MaxSerial,    \* bound: certificates signed
    MaxCrashes    \* bound: crashes and failures of openssl while the CA is made

ASSUME IssuanceAssumption == MaxSerial \in Nat /\ MaxCrashes \in Nat /\ Unknown \notin Nat

VARIABLES
    written,   \* files of the CA folder
    server,    \* "down", "creating", "checking", "up"
    dir,       \* certs/<CN>: file -> what it holds
    rows,      \* certificates rows of the account, oldest first
    req,       \* Slots -> request under way
    serials,   \* serial numbers given so far (random in the code, so never twice)
    crashes

issuanceVars == <<written, server, dir, rows, req, serials, crashes>>

-----------------------------------------------------------------------------
CaFiles == {"ca.pem", "truststore", "index", "crl", "raven.pem"}
\* create_ca writes them in this order; ca-trusted.pem goes with the truststore.
AfterFile == [f \in CaFiles |-> CASE f = "ca.pem" -> {} [] f = "truststore" -> {"ca.pem"}
                [] f = "index" -> {"truststore"}
                [] f = "crl" -> {"index"} [] f = "raven.pem" -> {"crl"}]
check_if_ca_exists == "ca.pem" \in written

Nobody == 0
NoFile == [key |-> Nobody, serial |-> Unknown, age |-> "none"]
Empty == [csr |-> Nobody, key |-> Nobody, pem |-> NoFile, p12 |-> NoFile]
Job(op, step, mixed) ==
    [op |-> op, step |-> step, mixed |-> mixed, row |-> 0, given |-> NoFile,
     serial |-> Unknown]
NoJob == Job("none", "none", FALSE)

\* Two rows of a release that recorded no serial numbers; the file is the later one's.
Legacy(s) == [key |-> Nobody, serial |-> s, age |-> "old"]
OldRow(s) == [op |-> "enroll", serial |-> Unknown, given |-> Legacy(s), mixed |-> FALSE]

\* A new server, or one whose authority is older than revocation.
IssuanceInit ==
    /\ \/ written = {} /\ dir = Empty /\ rows = <<>>
       \/ /\ written = {"ca.pem", "truststore", "raven.pem"}
          /\ dir = [Empty EXCEPT !.pem = Legacy(2)]
          /\ rows = <<OldRow(1), OldRow(2)>>
    /\ server = "down"
    /\ req = [r \in Slots |-> NoJob]
    /\ serials = 2 /\ crashes = 0

-----------------------------------------------------------------------------
(* The server's start: create_ca unless ca.pem is there, then ensure_crl. *)
Unchanged == UNCHANGED <<dir, rows, req, serials>>

StartServer ==
    /\ server = "down"
    /\ server' = IF check_if_ca_exists THEN "checking" ELSE "creating"
    /\ UNCHANGED <<written, crashes>> /\ Unchanged

CreateCa ==
    /\ server = "creating"
    /\ \E f \in CaFiles \ written :
          /\ AfterFile[f] \subseteq written
          /\ written' = written \cup {f}
    /\ server' = IF written' = CaFiles THEN "checking" ELSE "creating"
    /\ UNCHANGED crashes /\ Unchanged

\* openssl fails, or the process is killed: the start ends, what is written stays.
CreateFails ==
    /\ server = "creating" /\ crashes < MaxCrashes
    /\ server' = "down"
    /\ crashes' = crashes + 1
    /\ UNCHANGED written /\ Unchanged

\* ensure_crl: generate_crl makes the index, too, where it is missing.
EnsureCrl ==
    /\ server = "checking"
    /\ written' = written \cup {"index", "crl"}
    /\ server' = "up"
    /\ UNCHANGED crashes /\ Unchanged

\* What goes wrong in it is caught and logged, and the server starts; the CRL is
\* made last, and only one that openssl has finished takes its name.
EnsureFails ==
    /\ server = "checking"
    /\ written' \in {written, written \cup {"index"}}
    /\ server' = "up"
    /\ UNCHANGED crashes /\ Unchanged

\* The daily refresh_crl job tries again where the CRL is missing, and reports the
\* same failures.
RefreshMissingCrl ==
    /\ server = "up" /\ "crl" \notin written
    /\ written' \in {written \cup {"index"}, written \cup {"index", "crl"}}
    /\ UNCHANGED <<server, crashes>> /\ Unchanged

-----------------------------------------------------------------------------
(* Steps of requests. Whatever writes csr or pem while others are at work is    *)
(* noted for the others.                                                        *)
Frame == UNCHANGED <<written, server, crashes>>

Begin(r, q) ==
    /\ server = "up" /\ req[r] = NoJob
    /\ req' = [req EXCEPT ![r] = q]
Advance(r, q) == req' = [req EXCEPT ![r] = q]
AdvanceMixing(r, q) ==
    req' = [x \in Slots |->
        CASE x = r -> q
          [] x # r /\ req[x].op \in {"enroll", "package"} -> [req[x] EXCEPT !.mixed = TRUE]
          [] OTHER -> req[x]]
Fail(r) == Advance(r, NoJob) /\ UNCHANGED <<dir, rows, serials>>
At(r, op, step) == req[r].op = op /\ req[r].step = step
Others(r) == \E x \in Slots \ {r} : req[x].op \in {"enroll", "package"}

\* signClient/v2: the CSR the device sent is written.
WriteCsr(r) ==
    /\ server = "up" /\ req[r] = NoJob
    /\ AdvanceMixing(r, Job("enroll", "sign", Others(r)))
    /\ dir' = [dir EXCEPT !.csr = r]
    /\ UNCHANGED <<rows, serials>> /\ Frame

\* issue_certificate: the directory is removed and made again ...
RemakeDirectory(r) ==
    /\ server = "up" /\ req[r] = NoJob
    /\ AdvanceMixing(r, Job("package", "key", Others(r)))
    /\ dir' = Empty
    /\ UNCHANGED <<rows, serials>> /\ Frame

\* ... and `openssl req` writes a key and a CSR.
NewKey(r) ==
    /\ At(r, "package", "key")
    /\ dir' = [dir EXCEPT !.key = r, !.csr = r]
    /\ AdvanceMixing(r, [req[r] EXCEPT !.step = "sign"])
    /\ UNCHANGED <<rows, serials>> /\ Frame

\* `openssl x509 -req` signs the CSR it finds in the directory.
OpensslSigns(r) ==
    /\ req[r].op \in {"enroll", "package"} /\ req[r].step = "sign"
    /\ dir.csr # Nobody /\ serials < MaxSerial
    /\ serials' = serials + 1
    /\ dir' = [dir EXCEPT !.pem = [key |-> dir.csr, serial |-> serials + 1, age |-> "new"]]
    /\ AdvanceMixing(r, [req[r] EXCEPT !.step = IF req[r].op = "enroll" THEN "read" ELSE "p12"])
    /\ UNCHANGED rows /\ Frame

OpensslFails(r) ==
    /\ req[r].op \in {"enroll", "package"}
    /\ \/ req[r].step = "sign" /\ dir.csr = Nobody
       \/ req[r].step \in {"read", "p12"} /\ dir.pem = NoFile
       \/ req[r].step = "p12" /\ dir.pem.key # dir.key
       \/ req[r].step = "zip" /\ (dir.pem = NoFile \/ dir.p12 = NoFile)
    /\ Fail(r) /\ Frame

\* sign_csr reads the certificate back; its bytes are what the device gets.
ReadPem(r) ==
    /\ At(r, "enroll", "read") /\ dir.pem # NoFile
    /\ Advance(r, [req[r] EXCEPT !.step = "record", !.given = dir.pem])
    /\ UNCHANGED <<dir, rows, serials>> /\ Frame

\* Mutant: the serial number is read from the file, after the certificate was.
RecordWhatLies(r) ==
    /\ At(r, "enroll", "record")
    /\ rows' = Append(rows, [op |-> "enroll", serial |-> dir.pem.serial,
                             given |-> req[r].given, mixed |-> req[r].mixed])
    /\ Advance(r, NoJob)
    /\ UNCHANGED <<dir, serials>> /\ Frame

\* The row has the serial number of those bytes; then the device has its answer.
RecordEnrolled(r) ==
    /\ At(r, "enroll", "record")
    /\ rows' = Append(rows, [op |-> "enroll", serial |-> req[r].given.serial,
                             given |-> req[r].given, mixed |-> req[r].mixed])
    /\ Advance(r, NoJob)
    /\ UNCHANGED <<dir, serials>> /\ Frame

\* `openssl pkcs12` wants a key that is the certificate's.
ExportP12(r) ==
    /\ At(r, "package", "p12") /\ dir.pem # NoFile /\ dir.pem.key = dir.key
    /\ dir' = [dir EXCEPT !.p12 = dir.pem]
    /\ Advance(r, [req[r] EXCEPT !.step = "zip"])
    /\ UNCHANGED <<rows, serials>> /\ Frame

\* generate_zip takes the p12 once openssl has exported the truststore; at once
\* /api/certificate reads the serial number from the pem file.
PackUp(r) ==
    /\ At(r, "package", "zip") /\ dir.pem # NoFile /\ dir.p12 # NoFile
    /\ Advance(r, [req[r] EXCEPT !.step = "record", !.given = dir.p12, !.serial = dir.pem.serial])
    /\ UNCHANGED <<dir, rows, serials>> /\ Frame

RecordPackage(r) ==
    /\ At(r, "package", "record")
    /\ rows' = Append(rows, [op |-> "package", serial |-> req[r].serial,
                             given |-> req[r].given, mixed |-> req[r].mixed])
    /\ Advance(r, NoJob)
    /\ UNCHANGED <<dir, serials>> /\ Frame

-----------------------------------------------------------------------------
(* _serial_from_disk: a row without a serial number, before it is listed or       *)
(* revoked. The later rows of the common name are looked up first, the other rows *)
(* with that serial number last.                                                  *)
LookUpLater(r, i) ==
    /\ rows[i].serial = Unknown /\ i = Len(rows)
    /\ Begin(r, [NoJob EXCEPT !.op = "backfill", !.row = i])
    /\ UNCHANGED <<dir, rows, serials>> /\ Frame

\* Trusted only where it expires when the row says and no other row has its number.
BackfillSerial(r) ==
    LET i == req[r].row
        trusted == /\ dir.pem.age = rows[i].given.age
                   /\ \A j \in DOMAIN rows \ {i} : rows[j].serial # dir.pem.serial
    IN  /\ req[r].op = "backfill"
        /\ rows' = IF trusted THEN [rows EXCEPT ![i].serial = dir.pem.serial] ELSE rows
        /\ Advance(r, NoJob)
        /\ UNCHANGED <<dir, serials>> /\ Frame

-----------------------------------------------------------------------------
IssuanceNext ==
    \/ StartServer \/ CreateCa \/ CreateFails \/ EnsureCrl \/ EnsureFails
    \/ RefreshMissingCrl
    \/ \E r \in Slots :
          \/ WriteCsr(r) \/ RemakeDirectory(r) \/ NewKey(r) \/ OpensslSigns(r) \/ OpensslFails(r)
          \/ ReadPem(r) \/ RecordEnrolled(r) \/ ExportP12(r) \/ PackUp(r) \/ RecordPackage(r)
          \/ \E i \in DOMAIN rows : LookUpLater(r, i)
          \/ BackfillSerial(r)

IssuanceSpec == IssuanceInit /\ [][IssuanceNext]_issuanceVars

\* The serial number of a row is that of the certificate its holder was given, so
\* that revoking the row revokes the certificate ("Recorded so the cert can be revoked
\* later"); except for a package that another request of the account came between.
RowNamesItsCertificate ==
    \A i \in DOMAIN rows :
        \/ rows[i].serial \in {Unknown, rows[i].given.serial}
        \/ rows[i].op = "package" /\ rows[i].mixed

\* "ca.crl must always exist and never expire", and the start of the server is to
\* "make sure there is one", since without it no client certificate is accepted.
CrlWhenUp == server = "up" => "crl" \in written
=============================================================================
