----------------------------- MODULE MCHostProcess -----------------------------
(***************************************************************************)
(* The Neo process over the promise of the durable host, alone or with     *)
(* the status command beside it, and the durable host's own composition,   *)
(* which keeps that promise.  A behaviour uses one of the three.  Beside   *)
(* the status command one process is launched when the other is gone.  The *)
(* composition meets a root, a lock file and a database that pass, and     *)
(* each in every way that fails.                                           *)
(***************************************************************************)
EXTENDS NeoProcess, DurableStorage, TLC

VARIABLE used

Data(value) == [as |-> "data", value |-> value]
Plain(fields) == [shape |-> "plain", symbols |-> FALSE, fields |-> fields]
Path(names) == [form |-> "absolute", nul |-> FALSE, names |-> names]

Binding(platform, path) ==
    Plain([platform |-> Data(platform), storageRoot |-> Data(path)])
Plan(binding) ==
    Plain([binding |-> Data(binding), schemaVersion |-> Data("current"), diagnostics |-> Data("claimed")])
GoodPlan == Plan(Binding("posix", Path(<<"srv", "neo">>)))

MCPlans ==
    {GoodPlan,
     [GoodPlan EXCEPT !.shape = "proxy"], [GoodPlan EXCEPT !.shape = "array"],
     [GoodPlan EXCEPT !.symbols = TRUE], [GoodPlan EXCEPT !.fields.binding.as = "accessor"],
     [GoodPlan EXCEPT !.fields.schemaVersion = Data("older")],
     Plain([binding |-> Data("missing the others")]),
     Plan(Binding("amiga", Path(<<"srv", "neo">>))),
     Plan(Binding("win32", [form |-> "drive", nul |-> FALSE, names |-> <<"neo">>])),
     Plan(Binding("win32", [form |-> "drive", nul |-> FALSE, names |-> <<"reserved device">>]))}
    \cup {Plan(Binding("posix", path)) : path \in
            {Path(<<>>), Path(<<"srv", "..", "neo">>), Path(<<"srv", "">>),
             [form |-> "double-root", nul |-> FALSE, names |-> <<"srv">>],
             [form |-> "empty", nul |-> FALSE, names |-> <<>>]}}

GoodPolicy ==
    Plain([expectedUid |-> Data(1), allowedModeBits |-> Data(OwnerRwx), repositoryRoot |-> Data(Path(<<"repo">>))])
MCPolicies ==
    {GoodPolicy,
     [GoodPolicy EXCEPT !.fields.expectedUid = Data(0)],
     [GoodPolicy EXCEPT !.fields.allowedModeBits = Data({"ur"})],
     [GoodPolicy EXCEPT !.fields.repositoryRoot = Data(Path(<<"srv">>))],
     [GoodPolicy EXCEPT !.fields.repositoryRoot = Data(Path(<<>>))]}

Directory(path, uid, mode) == [type |-> "directory", uid |-> uid, mode |-> mode, real |-> path]
Disk(parent, root) ==
    (<<"srv">> :> parent) @@ (<<"srv", "neo">> :> root) @@ (<<"repo">> :> Directory(<<"repo">>, 1, OwnerRwx))
ParentDir == Directory(<<"srv">>, 0, OwnerRwx)
RootDir == Directory(<<"srv", "neo">>, 1, OwnerRwx)
GoodWorld == [os |-> "linux", uid |-> 1, disk |-> Disk(ParentDir, RootDir), opened |-> RootDir]
With(parent, root) == [GoodWorld EXCEPT !.disk = Disk(parent, root), !.opened = root]

MCWorlds ==
    {GoodWorld, [GoodWorld EXCEPT !.os = "other"],
     With([ParentDir EXCEPT !.type = "symlink"], RootDir), With([ParentDir EXCEPT !.type = "file"], RootDir),
     With(ParentDir, [RootDir EXCEPT !.type = "symlink"]), With(ParentDir, [RootDir EXCEPT !.type = "PERMISSION"]),
     With(ParentDir, [RootDir EXCEPT !.uid = 0]), With(ParentDir, [RootDir EXCEPT !.mode = @ \cup {"other"}]),
     With(ParentDir, [RootDir EXCEPT !.real = <<"mnt">>]),
     [GoodWorld EXCEPT !.opened = [type |-> "IO"]],
     [GoodWorld EXCEPT !.opened.mode = @ \cup {"group"}]}

GoodFile == [error |-> "none", native |-> "loaded", flags |-> {"cloexec"}, type |-> "file", uid |-> 1,
             links |-> 1, mode |-> {"ur", "uw"}]
MCLockFiles ==
    {GoodFile, [GoodFile EXCEPT !.error = "ELOOP"], [GoodFile EXCEPT !.error = "flags-unavailable"],
     [GoodFile EXCEPT !.flags = {}], [GoodFile EXCEPT !.links = 2], [GoodFile EXCEPT !.native = "absent"]}

MCDatabases == {"fit", "unfit", "unopenable"}

-------------------------------------------------------------------------------
OneAfterAnother ==
    LET first == CHOOSE p \in Processes : TRUE
    IN \A p \in Processes \ {first} : Main(p) = "absent" \/ Main(first) \in Gone

HostProcessInit == NeoInit /\ StatusInit /\ StorageInit /\ used \in {"neo", "status", "storage"}

HostProcessNext ==
    /\ \/ used = "neo" /\ NeoNext /\ UNCHANGED <<statusVars, storageVars>>
       \/ used = "status" /\ StatusNext /\ OneAfterAnother' /\ UNCHANGED storageVars
       \/ used = "storage" /\ StorageNext /\ UNCHANGED <<neoVars, statusVars>>
    /\ UNCHANGED used

\* The fairness of FairNeoSpec; nothing is assumed of the composition.
HostProcessSpec ==
    /\ HostProcessInit /\ [][HostProcessNext]_<<neoVars, statusVars, storageVars, used>>
    /\ \A p \in Processes : WF_neoVars(MainStep(p)) /\ WF_neoVars(ShutdownStep(p))
================================================================================
