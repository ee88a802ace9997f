# Formal models of the ARXML-to-YAML converter and the YAML installer

This directory holds TLA+ models of the Python tools in this repository. It
also holds the TLC configurations that model-check the models on small
instances, and TLAPS proofs that cover every value of the constants.

## The system

`src/tools/arxml2yaml/arxml2yaml.py` turns AUTOSAR ARXML manifests into the
slot configuration read by the runtime. It runs as one batch process, with no
threads and no callbacks. Its parts run in this order:

1. **Command line** (`main`, lines 348-409). It loops over the input paths and
   skips the ones that do not exist. For each of the others it calls
   `ARXMLParser.parse_file` and extends `all_services` by what that returns.
   If nothing was found it exits with 1. Otherwise it builds a
   `SlotAllocator(strategy)` and calls `YAMLGenerator.save`.
2. **Manifest reader** (`parse_file`, `_find_service_interfaces`,
   `_find_service_instances`, lines 106-195).
   - It parses one document.
   - It catches only `ET.ParseError`.
   - It adds the document's records to `self.services` and returns that whole
     list.
3. **Reconciler** (`_combine_definitions`, lines 197-231).
   - It makes one record per instance binding.
   - A binding without a reference gets the name `UnknownService_<len(result)>`.
   - A binding without an instance id gets the default id `len(result)`.
   - The safety level is inferred from the name.
4. **Identity deriver** (`compute_service_id`, FNV-1a, lines 69-84).
5. **Slot allocator** (`SlotAllocator.allocate`, lines 234-270). It has three
   paths:
   - ASIL-D services take the next slot of the cursor pool 924-1023.
   - Under `--strategy static`, and for a `static` category, a service takes
     the hash slot `service_id % 200`. This path has no collision check.
   - Everything else takes the next slot of the cursor pool 200-923.

   A pool that runs out raises `ValueError`.
6. **Configuration emitter** (`YAMLGenerator.generate` and `save`, lines
   273-345). It allocates a slot for each service in order and files the entry
   into the ASIL, static or dynamic bucket. The bucket is chosen by the safety
   level, then by the category, then by `slot <= 199`. `save` writes the file
   only after `generate` has returned.

`src/daemon/systemd/install_yaml.py` installs the configuration and the system
units. Its steps are groupadd/useradd, mkdir/chown, copying the YAML files and
systemd units, then daemon-reload and verification. Each step changes
persistent state, and failures are reported but never acted on.

## Modules

| Module | Models | Run by |
|---|---|---|
| `SlotAllocator` | Slot allocator and configuration emitter: `allocate`, the `generate` loop, `save` | `MC_SlotAllocator` |
| `Converter` | Command line, manifest reader, reconciler. It composes `SlotAllocator` through `INSTANCE` | `MC_Converter` |
| `AllocatorSpec` | What the allocator promises, with cursors and buckets abstracted away | through `SlotAllocator`'s `Abs` |
| `Fnv` | Identity deriver: FNV-1a of `compute_service_id` | `MC_Fnv` |
| `Installer` | `Installer.install()` and `main()` of `install_yaml.py` | `MC_Installer` |
| `SlotAllocatorProofs` | TLAPS proofs about `SlotAllocator` | `tlapm` |
| `SlotAllocatorRefinement` | TLAPS proof that `SlotAllocator` implements `AllocatorSpec` | `tlapm` |
| `ConverterProofs` | TLAPS proofs about `Converter`: types, and that the output reflects what was reconciled | `tlapm` |
| `InstallerProofs` | TLAPS proofs about `Installer`: types, dry runs, and repair by a clean rerun | `tlapm` |
| `ConverterSpec` | What the pipeline promises: `all_services` only grows while reading, then `AllocatorSpec` serves it | through `Converter`'s `ConvAbs` |
| `InstallerSpec` | What one invocation of `install_yaml.py` promises, with the loops abstracted away | through `Installer`'s `AbsInst` |
| `ConverterRefinement` | TLAPS proof that `Converter` implements `ConverterSpec` | `tlapm` |
| `InstallerRefinement` | TLAPS proof that `Installer` implements `InstallerSpec` | `tlapm` |

### SlotAllocator

**State.** The variables are:

- `services`: the list handed to `YAMLGenerator`;
- `strategy`;
- the two cursors `next_dynamic_slot` and `next_asil_slot`;
- the loop position `i`;
- the three output buckets, each a sequence of `[slot, svc]` entries;
- `status`: one of `generating`, `saved` (the file was written) or `error`
  (`ValueError` raised).

The pool bounds are constants, so a model can use small pools.

**Actions.** Each action is one iteration of the `generate` loop: the
`allocate` path it takes, followed by filing the entry (`Emit`).

- `AllocateAsil` and `AsilExhausted` are the two outcomes of lines 251-256.
- `AllocateStatic` is lines 258-262.
- `AllocateDynamic` and `DynamicExhausted` are lines 264-270.
- `Save` is the end of the loop followed by writing the file.

The `slot_hint` branch (line 247) is not modelled, because no caller passes a
hint. `category` is always `dynamic`, since the reconciler never sets it; the
model still lets the constant `Service` hold `static` records.

### AllocatorSpec and the refinement

`AllocatorSpec` states what `allocate()`, driven by `generate()` and `save()`,
promises. It has no cursors and no buckets: only the number `n` of services
served and, per pool, the set of slots handed out.

- `GrantAsil` and `GrantDynamic` hand out some free slot of their pool.
- `GrantStatic` hands out any slot of the static pool; sharing is allowed.
- `Refuse` reports exhaustion only when every slot of the waiting service's
  cursor pool is taken.
- `Complete` saves the file once all services are served.

`SlotAllocator` maps onto it through `Abs == INSTANCE AllocatorSpec WITH ...`:
`n` is `i - 1`, and each pool's slots are the slots of its bucket (`SlotsIn`).
The property `ImplementsAllocatorSpec == Abs!Spec` is checked by the alloc run
and proved in `SlotAllocatorRefinement`.

### Converter

**State.** The variables are:

- `docs`: the input list;
- `d`: the loop position;
- `parser_services`: `ARXMLParser.services`;
- `all_services`;
- `reconciled`: a history variable holding the records each document
  contributes, which is what the specification says is concatenated;
- `phase`;
- the allocator's variables, through `Alloc == INSTANCE SlotAllocator`.

**Documents.** A document is abstracted to five facts: whether it exists,
whether it is well-formed XML, whether it uses the AUTOSAR default namespace,
whether it holds a field that `int()` or `.lower()` rejects (a `bad` field),
and its instance bindings. Each binding has a reference name (or `""`) and an
instance id (or `Absent`). `Extracted` models what the unprefixed `find()`
calls of lines 169-190 return. `RaisesOnExtract` models the exceptions of
lines 145, 147, 171 and 186. `ServiceIdOf` is a constant operator standing
for FNV-1a.

**Actions.**

- `SkipMissing`: the input path does not exist.
- `SkipMalformed`: `ParseError` is caught.
- `ExtractionRaises`: any other exception, which ends the process.
- `ParseFile`: the normal path, including the `return self.services`.
- `NoServices`: the exit with 1.
- `StartGeneration`.
- `Generate`: one step of the allocator instance.

**Abstract specification.** `ConverterSpec` has a phase, the list `out`
handed to the allocator, and the state of `AllocatorSpec` (instantiated as
`Gen` on `out`). `Collect` may only extend `out` at its end; `Crash` may end
the reading phase at any time; `GiveUp` happens only with `out` empty;
`Start` only with `out` non-empty; `Generate` is a step of `AllocatorSpec`.
`Converter` maps onto it through `ConvAbs`: `out` is `all_services`, `n` is
`i - 1`, and the slot sets are the slots of the buckets. A missing or
malformed input is a stutter. The property `ImplementsConverterSpec` is
checked by the pipeline run and proved in `ConverterRefinement`.

### Fnv

`compute_service_id` (lines 69-84) is FNV-1a over the UTF-8 bytes of the name,
masked to 32 bits. TLC's integers are 32-bit signed, so a hash word is kept
as two 16-bit halves `[hi, lo]`.

- `XorByte` xors the byte into the low half.
- `MulPrime` multiplies by 0x01000193 = 2^24 + 403 modulo 2^32. The low half
  times 403 carries into the high half. The 2^24 term adds the low byte of `lo`,
  shifted by 8, to `hi`.
- `FnvStep` is one iteration of the loop: xor, then multiply.

The module's state machine hashes a name byte by byte (`HashByte`) and then
stores the id (`StoreId`). `FnvMatchesReference` compares the stored id with
`RefHash`, an independent schoolbook multiplication over four 8-bit limbs, for
every byte string up to length 3 over {0, 97, 128, 255}. `MC_Fnv` first checks
`RefHash` itself against published vectors: `""`, `"a"`, `"foobar"`,
`"BrakeControl"` and `"Radar"`.

The Converter keeps `ServiceIdOf` as a constant operator and does not call
`Fnv`, because hashing names of realistic length in the Converter's runs would
only cost states.

### Installer

**State.** The host is persistent and survives a process:

- `groups`, `users`, `dirs`, `exes`, `cfgs`, `unitfiles`;
- `chowned`: the owned items that carry their configured owner;
- `enabled`, `active`: the systemd units.

The process state is:

- `pc`: the step of `install()`, or `idle`, `preflight`, `reload`, `verify`
  or `exited`;
- `k`: the position in the step's for-loop;
- `dry`: `--dry-run`;
- `faulty`: some command of this run failed;
- `verified`, `mode`, `exit`;
- `runs`: the invocations so far, bounded by `MaxRuns`.

**Actions.**

- `InvokeInstall`, `InvokeVerify` and `InvokeUninstall` start a new invocation
  of `main()` on the host the last one left. The last of them exits with 1,
  because uninstall is not implemented.
- `PreflightFails` and `PreflightPasses`.
- One action per for-loop iteration: `CreateGroup`, `CreateUser`,
  `CreateDirectory`, `InstallExecutable`, `InstallConfigFile`, `InstallUnit`
  and `EnableStartSocket`.
- `SkipItem` covers dry runs, missing sources and non-socket units.
- `EndLoop`, `DaemonReload` and `Finish`.

**Faults.**

- Every `run_command` may fail. The failure is printed and ignored.
- A source file may not be built.
- `shutil.chown` raises when its owner or group does not exist. This ends the
  process (`exit = "crash"`) after the item was created and before it got
  its owner.

A later invocation starts from that host.

**Abstract specification.** `InstallerSpec` keeps the host and the
invocation's flags but replaces `pc` and `k` by a `status` of `idle`,
`running` or `exited`. A running install may `Work` (the host only grows,
stays consistent, and a dry run leaves it alone), `Abort` with 1 or a
traceback, or `Succeed` with 0, which outside a dry run with no failed command
requires the host installed and the verification passed. `HostOK` is the
consistency: an item carries its owner only once it and its owner and group
exist, only built files are installed, and only installed, configured socket
units are enabled or started. `Installer` maps onto it through `AbsInst`, with
`status` computed from `pc`. The property `ImplementsInstallerSpec` is
checked by the installer run and proved in `InstallerRefinement`.


All runs use `CHECK_DEADLOCK FALSE`. Each tool is a batch job that stops:
the converter after writing its file or on an error, and the installer after
its last invocation (`MaxRuns`).

| Run | Cfg | Expect | What it shows |
|---|---|---|---|
| alloc | `MC_SlotAllocator.cfg` | pass | `QmAsilSeparation`: slots stay in their pools, and a slot is in the ASIL-D pool exactly when its service is ASIL-D.<br>`DenseCursorAllocation`: the cursor pools are filled densely in input order.<br>`ExhaustionOnlyWhenFull`: a `ValueError` is raised only on a full pool.<br>`SavedOnlyWhenComplete`: the file is written only with every service emitted.<br>`ImplementsAllocatorSpec`: the allocator refines `AllocatorSpec`. |
| alloc_unique | `MC_SlotAllocator_unique.cfg` | violation | `SlotsUnique` fails under `--strategy static`. |
| pipeline | `MC_Converter.cfg` | pass | `OutputReflectsReconciled`: the run exits "no services" only when nothing was reconciled, and a written file holds an entry for each reconciled record.<br>`ImplementsConverterSpec`: the pipeline refines `ConverterSpec`. |
| pipeline_concat | `MC_Converter_concat.cfg` | violation | The first document's records are handed over twice. |
| pipeline_placeholders | `MC_Converter_placeholders.cfg` | violation | Two documents both produce `UnknownService_0`. |
| pipeline_namespace | `MC_Converter_namespace.cfg` | violation | References in namespaced documents are never resolved. |
| pipeline_crash | `MC_Converter_crash.cfg` | violation | One document with `INSTANCE-ID` `010` aborts the whole run. |
| installer | `MC_Installer.cfg` | pass | `RerunRepairs`: after any earlier crashes and failures, an install in which no command fails leaves the host fully installed and verified.<br>`DryRunChangesNothing`: a dry-run step never changes the host.<br>`ImplementsInstallerSpec`: the installer refines `InstallerSpec`. |
| installer_success | `MC_Installer_success.cfg` | violation | `ReportedSuccessComplete`: install exits 0 with a failed `useradd` or `systemctl`, and the host is not installed. |
| installer_verify | `MC_Installer_verify.cfg` | violation | `VerifyResultHonoured`: install exits 0 although `verify_installation()` returned False. |
| fnv | `MC_Fnv.cfg` | pass | `FnvMatchesReference`: the model of line 81 (a masked multiply, which the model computes on 16-bit halves only because TLC's integers are 32-bit signed) equals an independently written byte-limb FNV-1a after every byte of every string up to length 3; FNV-1 order (multiply, then XOR) breaks it. |

The four converter violations, the static-slot collision and the two
installer violations are recorded as findings in `PROJECT.json`. The duplication in `parse_file` was reproduced by
running the code on two small files.

**Bounds.**

- Allocator pools: 0..1, 2..3 and 4..5.
  - Two slots per pool let both cursors fill their pool and then fail on the
    next service.
  - Two static slots let ids 7, 4 and 2 both collide and spread.
  - Pool boundaries are adjacent, which catches off-by-one errors at the pool
    limits.
- Service lists: up to 4 records, over 3 services, one of them ASIL-D, under
  all three strategies. A list can contain repeats, so both pools overflow in
  some run.
- Converter: up to 2 documents drawn from 6 document kinds: missing,
  malformed, bad field, a plain document with a placeholder, a plain document
  with an id, and a namespaced document. Two documents are the least that can
  show the concatenation and placeholder bugs.
- Installer: one group, one user, one directory, two executables (one owned
  by root with group `lightap`, one not built), one config file, and a socket
  and a service unit. `MaxRuns = 3`, which lets a crashed run be followed by
  a failing run and then a clean one.
- Fnv: strings up to length 3 over bytes 0, 97, 128 and 255. These exercise
  the carry out of the low half and the wrap-around at 2^32.

**Fairness.** None is assumed, and no liveness property is checked. Every
loop of both scripts is a finite Python `for` loop over its input, so that
they end says nothing about the code; the one way `install()` can fail to
end is a command that never returns (`run_command` has no timeout), which is
a hazard the model cannot show, since each command is one atomic step.

## What is proved (`SlotAllocatorProofs`, `SlotAllocatorRefinement`, `ConverterProofs`, `ConverterRefinement`, `InstallerProofs` and `InstallerRefinement`, checked by `tlapm`)

### The slot allocator

The proofs assume only the named assumptions of `SlotAllocator`:

- the pool bounds are natural numbers, non-empty and ordered;
- every record has a natural `service_id` and a known level and category;
- `MaxServices` is a natural number.

**Theorems.**

- `TypeCorrect`: `Spec => []TypeOK`. It is proved from `InitTypeOK` and
  `NextTypeOK`, with one case per action.
- `SlotSafety`: `Spec => [](QmAsilSeparation /\ DenseCursorAllocation /\
  ExhaustionOnlyWhenFull /\ SavedOnlyWhenComplete)`. These properties are not
  inductive as they stand. The proof goes through the strengthening `IInv`,
  which adds four facts:
  - `CursorsMatchBuckets`: each cursor equals its pool start plus the length
    of its bucket. This is what makes the dense-allocation fact inductive.
  - `BucketLevels`: the static and dynamic buckets hold QM services only,
    static slots lie in the static pool, and the ASIL bucket holds ASIL-D
    services only.
  - `EntriesCount`: the bucket lengths add up to `i - 1`.
  - `SavedAtEnd`.

  `IInv` was first checked by TLC as an invariant of the alloc run. The proof
  has `InitIInv`, one lemma per action (`AllocateAsilIInv` and the others),
  `NextIInv`, and `IInvSlotProperties`.
- The corollaries `QmAsilSeparationHolds`, `DenseCursorAllocationHolds`,
  `ExhaustionOnlyWhenFullHolds` and `SavedOnlyWhenCompleteHolds` restate
  each property on its own.

- `ImplementsAllocatorSpecHolds` (in `SlotAllocatorRefinement`):
  `Spec => ImplementsAllocatorSpec`. Its steps:
  - `InitRefines`: `Init => Abs!Init`.
  - `StepRefines`: `IInv /\ [Next]_vars => [Abs!Next]_Abs!vars`, with one
    lemma per action.
  - The key lemma is `CursorSlots`. From `CursorsMatchBuckets` and
    `DenseCursorAllocation`, the slots a cursor pool has handed out are exactly
    the interval from the pool start to the cursor. So the cursor slot is free
    (`GrantAsil`, `GrantDynamic`), and a cursor past its pool means the whole
    pool is taken (`Refuse`).

### The converter pipeline (`ConverterProofs`)

The proofs assume the named assumptions of `Converter`:

- `NamesAssumption` and `ServiceIdAssumption`: names are non-empty, and every
  name or placeholder has a natural hash.
- `DocumentAssumption`: documents are well formed, with at most
  `MaxInstances` bindings.
- `PoolsAssumption`: the pool constants that `main()` hands to the allocator
  satisfy `SlotAllocator`'s `PoolAssumption`. `tlapm` does not take the
  assumptions of an instantiated module as facts, so they are restated here,
  where the constants are declared.

The allocator's proofs in `SlotAllocatorProofs` are about a constant service
list. In the pipeline that list is `all_services`, which changes while
parsing, so the allocator steps are proved again inside `Converter`.

**Theorems.**

- `TypeCorrect`: `Spec => []TypeOK`.
  - `MakeRecordType` and `CombineType` show that `_combine_definitions`
    yields `ServiceRecord`s. A placeholder's position stays below
    `MaxInstances`.
  - `GenerateTypeOK` covers the allocator's steps.
- `OutputReflectsReconciledHolds`: `Spec => []OutputReflectsReconciled`. This
  goes through `IInv` in `Converter`, which TLC checks on the pipeline
  configuration before it is proved. `IInv` adds these facts:
  - `ParserHoldsReconciled`: `ARXMLParser.services` equals the history of
    reconciled records.
  - `ReconciledIsSuffix`: that history is the tail of `all_services`.
  - `AllocatorIdle`: the allocator has not moved before generation, and
    "no services" means `all_services` is empty.
  - `SavedAtEnd`.
  - `VisitedEmitted`: every service `generate()` has visited has an entry
    in a bucket. The lemma `EmitKeeps` shows that an emit step keeps the
    old entries and adds the new one.

  The property holds even with the duplication bug of `parse_file` (run
  `pipeline_concat`). The history is still the tail of `all_services`,
  which is all the property needs.

### The converter refinement (`ConverterRefinement`)

- `ImplementsConverterSpecHolds`: `Spec => ImplementsConverterSpec`, for
  every pool layout, name set and document set. The invariant is
  `TypeOK /\ CursorInv`, where `CursorInv` is the allocator's
  `CursorsMatchBuckets /\ DenseCursorAllocation` on `all_services`.
  `tlapm` cannot use the theorems of an instantiated module, so
  `SlotAllocatorRefinement`'s argument is repeated here for the
  composition: `CursorSlotsIn` says a cursor pool's handed-out slots are
  the interval from its start up to its cursor, which makes the next cursor
  slot fresh (`GrantAsil`, `GrantDynamic`) and a cursor past its pool a
  full pool (`Refuse`). One lemma per allocator action maps it to its
  `AllocatorSpec` step. `ParseFileRefines` shows that `all_services`
  extended by `parser_services'` has the old list as a prefix; the skips
  are stutters. The duplication bug does not break the refinement:
  `ConverterSpec` does not say what `Collect` appends.

### The installer (`InstallerProofs`)

The proofs assume the named assumptions of `Installer`:

- `InstallerAssumption`: root is neither a configured user nor a group; every
  owned item has an owner and a group, each configured or root; the unit sets
  are units; built files are files of the configuration; `MaxRuns` is natural.
- `ListsAssumption`: each configuration list is a finite sequence of items
  of its kind, which is what a YAML list is.

**Theorems.**

- `TypeCorrect`: `Spec => []TypeOK`, with one lemma per group of variables
  (host, control flow, flags). Proving it showed that the first `TypeOK`
  was not inductive: it bounded `k` by the length of the current list even
  when `pc` is not a loop step. After `shutil.chown` raises at the last
  directory, `pc` becomes `exited` while `k` keeps its value. TLC confirmed
  that the old bound was violated, and `TypeOK` now bounds `k` only while
  `pc` is a loop step. The installer run does not check `TypeOK`: it only
  types the model's own loop position and sets, which no bug of the code
  can break; the theorem is kept because every other installer proof rests
  on it.
- `DryRunChangesNothingHolds`: `Spec => DryRunChangesNothing`. This is an
  action property, proved from the lemma `DryStep`: every step of a dry
  invocation leaves `host` unchanged.
- `RerunRepairsHolds`: `VerifiableConfig => (Spec => []RerunRepairs)`.
  `VerifiableConfig` says that every unit `verification.checks` expects to be
  active is a built socket unit that is configured to be started. This is a
  hypothesis of the theorem, not an assumption of the module. The code does
  not enforce it, and without it `verify_installation()` fails even on a
  perfect install. The model-checked configuration satisfies it.

  `RerunRepairs` is not inductive. It talks only about the moment of exit,
  and nothing in it says what the loops already put in place. The
  strengthening is `IInv == TypeOK /\ ExitedOnce /\ Progress`, and TLC checks
  `IInv` on the installer run:
  - `ExitedOnce`: an exit status is set only once the process has exited.
  - `Progress`: in a clean install (not dry, no failure so far), every loop
    step already passed has all of its items in place (`Done`). The current
    step has its first `k - 1` items in place. An exit with 0 means
    `Installed /\ verified`.

  Items in place stay in place because no step removes anything from the host
  (`NextHostGrows`, `DoneStays`). This is what lets a rerun build on whatever
  a crashed or failing run left. The proof has one lemma per action
  (`CreateDirectoryProgress` and the others). `AdvanceProgress` is shared by
  every step that handles one item. `AllDoneInstalled` turns "all steps done"
  into `Installed`, and `FinishProgress` turns it into `verified` under
  `VerifiableConfig`.

### The installer refinement (`InstallerRefinement`)

- `ImplementsInstallerSpecHolds`: `VerifiableConfig => (Spec =>
  ImplementsInstallerSpec)`. The invariant is `RInv == IInv /\ Consistent /\
  RunningInstall`: `IInv` from `InstallerProofs` (needed for `Succeed`),
  `Consistent` (the host satisfies `HostOK`, needed because `HostStep`
  demands `HostOK'`), and `RunningInstall` (a running process is an
  install, so a verify or uninstall invocation is one atomic abstract step).
  The loop steps that change the host and `DaemonReload` map to `Work`
  (`WorkRefines`); `CreateDirectory` and `InstallExecutable` map to `Work`,
  or to `Abort` when `chown()` raises (`OwnedRefines`); `PreflightPasses`,
  `EndLoop` and `SkipItem` are stutters (`InnerStutters`); a failed preflight
  is `Abort`; and `Finish` is `Succeed` (`FinishRefines`, which needs
  `Progress` from `IInv`). `InstallOwnedConsistent`
  carries the owner facts: `shutil.chown` is reached only after the owner
  and group were looked up, and `ChownFinds` says that lookup succeeds only
  if they exist.

**Only model-checked.**

- `Fnv`'s `TypeOK` and `FnvMatchesReference`, and all the violations.
- `Fnv` uses `Bitwise` and `RECURSIVE` operators. A module with a theorem
  cannot reach either of them, so its equality with the reference stays with
  TLC on bounded strings. It is also an induction over data, which the
  installed provers cannot instantiate.
- No liveness property is stated (see Fairness); TLAPS could not prove one
  anyway, nor anything stated with `ENABLED`.

## Not modelled, and why

- **Subprocess hangs.** `run_command` has no timeout. A hanging `useradd` or
  `systemctl` would block `install()` forever. Each command is one step
  that returns; this is recorded as a hazard.
- **What `daemon-reload` changes.** systemd loads a unit file it has not seen
  on the next enable or start anyway, so `DaemonReload` only fails or succeeds.
- **The checks of `verify_installation()`.** They are abstracted to "every unit
  expected active is active".
- **FNV in the Converter.** The Converter's runs use a constant `ServiceIdOf`;
  `Fnv` checks the function on its own.
- **Manifest reader.** It is `partly` modelled: XML is abstracted to the five
  facts a document is reduced to, and the element walk is not modelled.
- **Proofs.** `Fnv` has no TLAPS proof (see "Only model-checked"); every
  other property of a passing run is proved.
