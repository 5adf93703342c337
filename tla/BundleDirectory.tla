--------------------------- MODULE BundleDirectory ---------------------------
(***************************************************************************)
(* The life of a .twmodel directory: build_bundle writes its files one by  *)
(* one and the manifest last, load_bundle checks them against the manifest *)
(* and the simulator and the RTL runner then read them.  The process that  *)
(* builds may die between and within two writes; files may be damaged or   *)
(* removed while nobody builds.                                            *)
(*                                                                         *)
(* A digest stands for the content it was taken of.  The manifest itself   *)
(* has none: damaged, it is no longer JSON.                                *)
(***************************************************************************)
EXTENDS Naturals, Sequences, FiniteSets

CONSTANTS
  Models,         \* the compiled models
  FileOrder,      \* the files, in the order they are written
  Contents(_, _), \* what a file of a model holds
  Locations(_),   \* constant_locations and layer_count of a model's manifest
  Damaged,        \* the content of a torn or damaged file
  MaxDamaged,     \* bound on the files damaged at once
  Nothing         \* no model, no bundle

Files == {FileOrder[i] : i \in DOMAIN FileOrder}

ASSUME BundleAssumption ==
  /\ FileOrder \in Seq(STRING) /\ "manifest.json" \notin Files
  /\ Nothing \notin Models
  /\ \A m \in Models : \A f \in Files : Contents(f, m) # Damaged

VARIABLES
  disk,      \* the files of the directory: name -> content
  building,  \* the model whose build is running
  written,   \* the files it has written
  checked,   \* a reader has found the bundle in order and is about to read it
  opened     \* what the reader then read

bundleVars == << disk, building, written, checked, opened >>

Manifest(m) == [digests |-> [f \in Files |-> Contents(f, m)], locations |-> Locations(m)]

Image(m) ==
  [f \in Files \cup {"manifest.json"} |-> IF f \in Files THEN Contents(f, m) ELSE Manifest(m)]

Images == {Image(m) : m \in Models}

(* What is torn or damaged is told from every manifest. *)
ASSUME ManifestAssumption == \A m \in Models : Manifest(m) # Damaged

Empty == [f \in {} |-> Damaged]

BundleInit ==
  /\ disk = Empty /\ building = Nothing /\ written = 0
  /\ checked = FALSE /\ opened = Nothing
-----------------------------------------------------------------------------
Stored(file, content) ==
  [f \in DOMAIN disk \cup {file} |-> IF f = file THEN content ELSE disk[f]]

(* build_bundle refuses a directory that is not empty. *)
BeginBuild(m) ==
  /\ building = Nothing /\ disk = Empty
  /\ building' = m /\ written' = 0
  /\ UNCHANGED << disk, checked, opened >>

WriteFile ==
  /\ building # Nothing /\ written < Len(FileOrder)
  /\ disk' = Stored(FileOrder[written + 1], Contents(FileOrder[written + 1], building))
  /\ written' = written + 1
  /\ UNCHANGED << building, checked, opened >>

(* The manifest ends the build, whatever validate_bundle then says. *)
WriteManifest ==
  /\ building # Nothing /\ written = Len(FileOrder)
  /\ disk' = Stored("manifest.json", Manifest(building))
  /\ building' = Nothing
  /\ UNCHANGED << written, checked, opened >>

(* The builder dies, and may leave the file it was writing torn.           *)
Crash ==
  /\ building # Nothing
  /\ building' = Nothing
  /\ \/ UNCHANGED disk
     \/ written < Len(FileOrder) /\ disk' = Stored(FileOrder[written + 1], Damaged)
     \/ written = Len(FileOrder) /\ disk' = Stored("manifest.json", Damaged)
  /\ UNCHANGED << written, checked, opened >>

Damage(file) ==
  /\ ~checked /\ file \in DOMAIN disk
  /\ Cardinality({f \in DOMAIN disk : disk[f] = Damaged}) < MaxDamaged
  /\ disk' = Stored(file, Damaged)
  /\ UNCHANGED << building, written, checked, opened >>

(* The directory is cleared, file by file, for the next build.             *)
RemoveFile(file) ==
  /\ ~checked /\ building = Nothing /\ file \in DOMAIN disk
  /\ disk' = [f \in DOMAIN disk \ {file} |-> disk[f]]
  /\ UNCHANGED << building, written, checked, opened >>
-----------------------------------------------------------------------------
(* Faulty variant: the files need only be there. *)
Complete(found) == "manifest.json" \in DOMAIN found /\ Files \subseteq DOMAIN found

Valid(found) ==
  /\ "manifest.json" \in DOMAIN found /\ found["manifest.json"] # Damaged
  /\ \A f \in Files : f \in DOMAIN found /\ found[f] = found["manifest.json"].digests[f]

(* validate_bundle; the files are left alone until they have been read.    *)
Validate ==
  /\ ~checked
  /\ IF Valid(disk) THEN checked' = TRUE /\ UNCHANGED opened
                    ELSE opened' = Nothing /\ UNCHANGED checked
  /\ UNCHANGED << disk, building, written >>

(* load_bundle, simulate_bundle and extract_fixed_convolution read again.  *)
Read ==
  /\ checked
  /\ opened' = disk /\ checked' = FALSE
  /\ UNCHANGED << disk, building, written >>

BundleNext ==
  \/ \E m \in Models : BeginBuild(m)
  \/ WriteFile \/ WriteManifest \/ Crash
  \/ \E f \in DOMAIN disk : Damage(f) \/ RemoveFile(f)
  \/ Validate \/ Read

BundleSpec == BundleInit /\ [][BundleNext]_bundleVars
-----------------------------------------------------------------------------
Whole == disk \in Images

Publication ==
  INSTANCE BundlePublication WITH
    published <- IF Whole THEN disk ELSE Nothing

(* Whenever the builder dies, whatever is damaged or removed, and whenever *)
(* a reader comes, it gets the whole bundle of one model or is refused.    *)
ImplementsPublication == Publication!Spec
=============================================================================
