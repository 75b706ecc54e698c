---------------------------- MODULE AppDeployment ----------------------------
(***************************************************************************)
(* An application from its upload to the phones: the files the server      *)
(* keeps, the rows that describe them, one order of installation by phone  *)
(* and package, and the phone that downloads, checks, installs and         *)
(* reports.                                                                *)
(***************************************************************************)
EXTENDS Integers

CONSTANTS
    Units,          \* enrolled phones
    Apks,           \* rows of `app_packages`; all hold versions of one application
    Desks,          \* administrators
    Jobs,           \* jobs of a phone that run its commands at once
    Versions, Signers

VARIABLES
    unstable,   \* whether the server may stop between two statements
    owners,     \* phones where the application is Device Owner
    content,    \* what each uploaded file holds
    catalog,    \* the row of each upload: absent, offered or retired; its packageName
    disk,       \* its file in the storage directory
    desk,       \* what each administrator's request has still to do
    install,    \* INSTALL_APP of each phone and package
    told,       \* the packageName it carries
    removal,    \* UNINSTALL_APP of each phone
    app,        \* the version installed on each phone
    cache,      \* download-<package>.apk on each phone
    job,        \* what each job of a phone is doing
    had         \* history: the versions each phone has had

orders == <<install, told>>
server == <<unstable, content, catalog, disk, desk>>
appVars == <<unstable, owners, content, catalog, disk, desk,
             install, told, removal, app, cache, job, had>>

ASSUME AppAssumption == Versions \subseteq Nat

Builds == [version : Versions, signer : Signers]
NoApp == [version |-> -1]
AtRest == [pc |-> "rest"]
Stored == {"none", "partial", "whole"}
Copies == {"none", "whole", "other"}
Names == {"unknown", "app", "stray"}

AppTypeOK ==
    /\ unstable \in BOOLEAN /\ owners \subseteq Units
    /\ content \in [Apks -> Builds]
    /\ catalog \in [Apks -> [row : {"absent", "offered", "retired"}, name : Names]]
    /\ disk \in [Apks -> Stored]
    /\ desk \in [Desks -> {AtRest} \cup
           [pc : {"store", "create", "retire"}, apk : Apks] \cup
           [pc : {"deploy"}, apk : Apks, name : Names, left : SUBSET Units]]
    /\ install \in [Units \X Apks -> {"none", "pending", "executed", "failed", "expired"}]
    /\ told \in [Units \X Apks -> Names]
    /\ removal \in [Units -> {"none", "pending", "executed", "failed"}]
    /\ app \in [Units -> {NoApp} \cup Builds]
    /\ cache \in [Units \X Apks -> Copies]
    /\ job \in [Units \X Jobs -> {AtRest} \cup
           [pc : {"download", "commit"}, apk : Apks] \cup
           [pc : {"decide"}, apk : Apks, read : Copies] \cup
           [pc : {"report"}, apk : Apks, name : Names] \cup
           [pc : {"ack"}, apk : Apks, ok : BOOLEAN]]
    /\ had \in [Units -> SUBSET Builds]

AppInit ==
    /\ unstable \in BOOLEAN /\ owners \in SUBSET Units
    /\ content \in [Apks -> Builds]
    /\ catalog = [p \in Apks |-> [row |-> "absent", name |-> "unknown"]]
    /\ disk = [p \in Apks |-> "none"] /\ desk = [d \in Desks |-> AtRest]
    /\ install = [k \in Units \X Apks |-> "none"]
    /\ told = [k \in Units \X Apks |-> "unknown"]
    /\ removal = [u \in Units |-> "none"]
    /\ app = [u \in Units |-> NoApp] /\ cache = [k \in Units \X Apks |-> "none"]
    /\ job = [k \in Units \X Jobs |-> AtRest] /\ had = [u \in Units |-> {}]

-----------------------------------------------------------------------------
(* The server: app-packages.service.ts, apk-upload.ts *)

DeskAt(d, step) == desk' = [desk EXCEPT ![d] = step]
OnPhones == UNCHANGED <<owners, removal, app, cache, job, had>>
OnServer == UNCHANGED <<unstable, owners, content>>

\* upload: the body is streamed to a file of a new name,
StartUpload(d, p) ==
    /\ desk[d] = AtRest /\ disk[p] = "none" /\ catalog[p].row = "absent"
    /\ disk' = [disk EXCEPT ![p] = "partial"]
    /\ DeskAt(d, [pc |-> "store", apk |-> p])
    /\ UNCHANGED <<catalog, orders>> /\ OnServer /\ OnPhones

\* which is complete, or removed: too long, empty, cut,
StoreUploadedApk(d) ==
    /\ desk[d].pc = "store"
    /\ LET p == desk[d].apk
       IN  \/ disk' = [disk EXCEPT ![p] = "whole"] /\ DeskAt(d, [pc |-> "create", apk |-> p])
           \/ disk' = [disk EXCEPT ![p] = "none"] /\ DeskAt(d, AtRest)
    /\ UNCHANGED <<catalog, orders>> /\ OnServer /\ OnPhones

\* and the row is created if the file is signed.
CreateRow(d) ==
    /\ desk[d].pc = "create"
    /\ LET p == desk[d].apk
       IN  \/ catalog' = [catalog EXCEPT ![p].row = "offered"] /\ UNCHANGED disk
           \/ disk' = [disk EXCEPT ![p] = "none"] /\ UNCHANGED catalog
    /\ DeskAt(d, AtRest)
    /\ UNCHANGED orders /\ OnServer /\ OnPhones

\* deploy: the row is read, then an order is sent to each enrolled phone.
Deploy(d, p) ==
    /\ desk[d] = AtRest /\ catalog[p].row = "offered"
    /\ DeskAt(d, [pc |-> "deploy", apk |-> p, name |-> catalog[p].name, left |-> Units])
    /\ UNCHANGED <<catalog, disk, orders>> /\ OnServer /\ OnPhones

\* enqueue: the key install:<package> orders it once and for all.
DeployTo(d, u) ==
    /\ desk[d].pc = "deploy" /\ u \in desk[d].left
    /\ LET rest == desk[d].left \ {u}
       IN  DeskAt(d, IF rest = {} THEN AtRest ELSE [desk[d] EXCEPT !.left = rest])
    /\ LET k == <<u, desk[d].apk>>
       IN  IF install[k] = "none"
           THEN /\ install' = [install EXCEPT ![k] = "pending"]
                /\ told' = [told EXCEPT ![k] = desk[d].name]
           ELSE UNCHANGED orders
    /\ UNCHANGED <<catalog, disk>> /\ OnServer /\ OnPhones

\* uninstall, one of the phones of the list.
Uninstall(d, u) ==
    /\ desk[d] = AtRest /\ removal[u] = "none"
    /\ removal' = [removal EXCEPT ![u] = "pending"]
    /\ UNCHANGED <<catalog, disk, desk, orders, app, cache, job, had>> /\ OnServer

\* retire: the file first, then the row.
RetireFile(d, p) ==
    /\ desk[d] = AtRest /\ catalog[p].row # "absent"
    /\ disk' = [disk EXCEPT ![p] = "none"]
    /\ DeskAt(d, [pc |-> "retire", apk |-> p])
    /\ UNCHANGED <<catalog, orders>> /\ OnServer /\ OnPhones

RetireRow(d) ==
    /\ desk[d].pc = "retire"
    /\ catalog' = [catalog EXCEPT ![desk[d].apk].row = "retired"]
    /\ DeskAt(d, AtRest)
    /\ UNCHANGED <<disk, orders>> /\ OnServer /\ OnPhones

StopServer(d) ==
    /\ unstable /\ desk[d] # AtRest
    /\ DeskAt(d, AtRest)
    /\ UNCHANGED <<catalog, disk, orders>> /\ OnServer /\ OnPhones

OrderExpires(u, p) ==
    /\ install[<<u, p>>] = "pending"
    /\ install' = [install EXCEPT ![<<u, p>>] = "expired"]
    /\ UNCHANGED <<owners, told, removal, app, cache, job, had>> /\ UNCHANGED server

-----------------------------------------------------------------------------
(* The phone: AppInstaller, decideInstall, installApp *)

Run(u, j, step) == job' = [job EXCEPT ![<<u, j>>] = step]
Ack(p, ok) == [pc |-> "ack", apk |-> p, ok |-> ok]
Unordered == UNCHANGED <<owners, orders, removal>>

\* A pending order is run; without Device Owner it fails at once.
StartInstall(u, j, p) ==
    /\ job[<<u, j>>] = AtRest /\ install[<<u, p>>] = "pending"
    /\ Run(u, j, IF u \in owners THEN [pc |-> "download", apk |-> p] ELSE Ack(p, FALSE))
    /\ UNCHANGED <<app, cache, had>> /\ Unordered /\ UNCHANGED server

\* The file is served while its row is offered; what comes may not be it.
Download(u, j) ==
    /\ job[<<u, j>>].pc = "download"
    /\ LET p == job[<<u, j>>].apk
       IN  /\ catalog[p].row = "offered" /\ disk[p] = "whole"
           /\ \E copy \in {"whole", "other"} :
                  /\ cache' = [cache EXCEPT ![<<u, p>>] = copy]
                  /\ Run(u, j, [pc |-> "decide", apk |-> p, read |-> copy])
    /\ UNCHANGED <<app, had>> /\ Unordered /\ UNCHANGED server

\* No answer, a refusal, a stream cut, a file nobody can read: the file is deleted.
DownloadFails(u, j) ==
    /\ job[<<u, j>>].pc = "download"
    /\ LET p == job[<<u, j>>].apk
       IN  cache' = [cache EXCEPT ![<<u, p>>] = "none"] /\ Run(u, j, Ack(p, FALSE))
    /\ UNCHANGED <<app, had>> /\ Unordered /\ UNCHANGED server

\* What the phone reads of the file it keeps: the build and the name.
StrayBuild == CHOOSE b \in Builds : \A c \in Builds : b.version <= c.version
Build(u, p) == IF cache[<<u, p>>] = "whole" THEN content[p] ELSE StrayBuild
NameRead(u, p) == IF cache[<<u, p>>] = "whole" THEN "app" ELSE "stray"

\* decideInstall: checksum, signature, name, then what is installed already.  The
\* checksum is that of the stream the job has read.
Verdict(u, p, read) ==
    LET new == Build(u, p)
        trusted == /\ read = "whole" /\ new.signer = content[p].signer
                   /\ told[<<u, p>>] \in {"unknown", NameRead(u, p)}
    IN  IF ~trusted THEN "anomaly"
        ELSE IF NameRead(u, p) = "stray" \/ app[u] = NoApp THEN "install"
        ELSE IF app[u].signer # new.signer THEN "anomaly"
        ELSE IF new.version > app[u].version THEN "install"
        ELSE IF new.version = app[u].version THEN "upToDate"
        ELSE "anomaly"

\* Mutant: any refusal counts as done.
AckRefusals(u, j, p, verdict) ==
    /\ cache' = [cache EXCEPT ![<<u, p>>] = "none"]
    /\ Run(u, j, Ack(p, TRUE))

\* isAnomaly: an application that is up to date is a success.
AckRefusal(u, j, p, verdict) ==
    /\ cache' = [cache EXCEPT ![<<u, p>>] = "none"]
    /\ Run(u, j, Ack(p, verdict = "upToDate"))

Decide(u, j) ==
    /\ job[<<u, j>>].pc = "decide"
    /\ LET p == job[<<u, j>>].apk
           verdict == Verdict(u, p, job[<<u, j>>].read)
       IN  IF cache[<<u, p>>] = "none" THEN Run(u, j, Ack(p, FALSE)) /\ UNCHANGED cache
           ELSE IF verdict = "install"
           THEN Run(u, j, [pc |-> "commit", apk |-> p]) /\ UNCHANGED cache
           ELSE AckRefusal(u, j, p, verdict)
    /\ UNCHANGED <<app, had>> /\ Unordered /\ UNCHANGED server

\* commit: Android refuses an older version and another signer.
Acceptable(u, p) ==
    /\ cache[<<u, p>>] # "none"
    /\ cache[<<u, p>>] = "whole" /\ app[u] # NoApp =>
           app[u].signer = content[p].signer /\ app[u].version <= content[p].version

Commit(u, j) ==
    /\ job[<<u, j>>].pc = "commit"
    /\ LET p == job[<<u, j>>].apk
       IN  /\ Acceptable(u, p)
           /\ IF cache[<<u, p>>] = "whole"
              THEN /\ app' = [app EXCEPT ![u] = content[p]]
                   /\ had' = [had EXCEPT ![u] = @ \cup {content[p]}]
              ELSE UNCHANGED <<app, had>>
           /\ \/ Run(u, j, [pc |-> "report", apk |-> p, name |-> NameRead(u, p)])
              \/ Run(u, j, Ack(p, FALSE))      \* no answer in time
    /\ UNCHANGED cache /\ Unordered /\ UNCHANGED server

CommitFails(u, j) ==
    /\ job[<<u, j>>].pc = "commit"
    /\ LET p == job[<<u, j>>].apk
       IN  cache' = [cache EXCEPT ![<<u, p>>] = "none"] /\ Run(u, j, Ack(p, FALSE))
    /\ UNCHANGED <<app, had>> /\ Unordered /\ UNCHANGED server

\* recordInstalledIdentity: the first report is kept; a report may be lost.
ReportInstalled(u, j) ==
    /\ job[<<u, j>>].pc = "report"
    /\ LET p == job[<<u, j>>].apk
       IN  /\ \/ catalog' = [catalog EXCEPT ![p].name = IF @ = "unknown"
                                                        THEN job[<<u, j>>].name ELSE @]
              \/ UNCHANGED catalog
           /\ cache' = [cache EXCEPT ![<<u, p>>] = "none"]
           /\ Run(u, j, Ack(p, TRUE))
    /\ UNCHANGED <<unstable, content, disk, desk, app, had>> /\ Unordered

\* reportResult: an executed order stays executed.
ReportResult(u, j) ==
    /\ job[<<u, j>>].pc = "ack"
    /\ LET p == job[<<u, j>>].apk
       IN  install' = [install EXCEPT ![<<u, p>>] =
               IF @ = "executed" \/ job[<<u, j>>].ok THEN "executed" ELSE "failed"]
    /\ Run(u, j, AtRest)
    /\ UNCHANGED <<owners, told, removal, app, cache, had>> /\ UNCHANGED server

\* The process ends before the outcome is kept: the order will be run again.
KillJob(u, j) ==
    /\ job[<<u, j>>].pc \in {"download", "decide", "commit", "report"}
    /\ Run(u, j, AtRest)
    /\ UNCHANGED <<app, cache, had>> /\ Unordered /\ UNCHANGED server

\* uninstallApp: done, refused, or done without an answer in time.
RunRemoval(u, j) ==
    /\ job[<<u, j>>] = AtRest /\ removal[u] = "pending"
    /\ \/ u \in owners /\ app' = [app EXCEPT ![u] = NoApp]
          /\ \E r \in {"executed", "failed"} : removal' = [removal EXCEPT ![u] = r]
       \/ removal' = [removal EXCEPT ![u] = "failed"] /\ UNCHANGED app
    /\ UNCHANGED <<owners, orders, cache, job, had>> /\ UNCHANGED server

-----------------------------------------------------------------------------

AppNext ==
    \/ \E d \in Desks :
           \/ \E p \in Apks : StartUpload(d, p) \/ Deploy(d, p) \/ RetireFile(d, p)
           \/ \E u \in Units : DeployTo(d, u) \/ Uninstall(d, u)
           \/ StoreUploadedApk(d) \/ CreateRow(d) \/ RetireRow(d) \/ StopServer(d)
    \/ \E u \in Units :
           \/ \E p \in Apks : OrderExpires(u, p)
           \/ \E j \in Jobs :
                  \/ \E p \in Apks : StartInstall(u, j, p)
                  \/ Download(u, j) \/ DownloadFails(u, j) \/ Decide(u, j)
                  \/ Commit(u, j) \/ CommitFails(u, j) \/ ReportInstalled(u, j)
                  \/ ReportResult(u, j) \/ KillJob(u, j) \/ RunRemoval(u, j)

AppSpec == AppInit /\ [][AppNext]_appVars

-----------------------------------------------------------------------------
(* Properties *)

\* While the server runs, an application that is offered has its whole file.
OfferedHasFile ==
    ~unstable =>
        \A p \in Apks : catalog[p].row = "offered" =>
            \/ disk[p] = "whole"
            \/ \E d \in Desks : desk[d].pc = "retire" /\ desk[d].apk = p

\* An installation the server shows as executed is one the phone has had: that
\* version, by that signer.
ExecutedWasInstalled ==
    \A u \in Units, p \in Apks :
        install[<<u, p>>] = "executed" => content[p] \in had[u]

\* The name the catalog shows is the one the uploaded file declares, whatever came
\* through the network.
NameIsOfTheFile ==
    \A p \in Apks : catalog[p].name # "stray"

\* An upload under way is of one administrator, who finds the file as he left it, and its
\* row is not there yet; the row of a file that is being retired is.
UploadsAgree ==
    /\ \A d \in Desks :
           /\ desk[d].pc = "store" => /\ disk[desk[d].apk] = "partial"
                                      /\ catalog[desk[d].apk].row = "absent"
           /\ desk[d].pc = "create" => /\ disk[desk[d].apk] = "whole"
                                       /\ catalog[desk[d].apk].row = "absent"
           /\ desk[d].pc = "retire" => catalog[desk[d].apk].row # "absent"
    /\ \A d, e \in Desks :
           /\ desk[d].pc \in {"store", "create"} /\ desk[e].pc \in {"store", "create"}
           /\ desk[d].apk = desk[e].apk
           => d = e

\* What a job has read is what the phone keeps; what it reports as done, and what is
\* installed, the phone has had.
InstallsAgree ==
    /\ \A k \in Units \X Jobs :
           /\ job[k].pc = "decide" => cache[<<k[1], job[k].apk>>] = job[k].read
           /\ job[k].pc = "commit" => cache[<<k[1], job[k].apk>>] = "whole"
           /\ job[k].pc = "report" => job[k].name = "app" /\ content[job[k].apk] \in had[k[1]]
           /\ job[k].pc = "ack" /\ job[k].ok => content[job[k].apk] \in had[k[1]]
    /\ \A u \in Units : app[u] # NoApp => app[u] \in had[u]

\* An application is installed as it was uploaded: its file is whole, its name is its
\* own, and what is shown as installed was.
AppInv ==
    /\ AppTypeOK /\ UploadsAgree /\ InstallsAgree
    /\ OfferedHasFile /\ NameIsOfTheFile /\ ExecutedWasInstalled

-----------------------------------------------------------------------------
(* Expected of the code, and not held by it: README.md tells which constants   *)
(* show it.                                                                    *)

\* A deployment that counts a phone leaves an order it will run, unless it has
\* the application.
DeployedIsOrdered ==
    [][\A d \in Desks : desk[d].pc = "deploy" /\ desk'[d] # desk[d] =>
          \A u \in desk[d].left :
              \/ desk'[d].pc = "deploy" /\ u \in desk'[d].left
              \/ install'[<<u, desk[d].apk>>] = "pending"
              \/ app[u] = content[desk[d].apk]]_appVars

\* An offered application has its file, even when the server stops.
OfferedSurvives == \A p \in Apks : catalog[p].row = "offered" =>
            \/ disk[p] = "whole"
            \/ \E d \in Desks : desk[d].pc = "retire" /\ desk[d].apk = p
=============================================================================
