-------------------------- MODULE PluginDiscovery --------------------------
(***************************************************************************)
(* PluginDiscovery.cpp and PluginRegistry::discover: from a path to plugin *)
(* slots.  What the file system answers to one look at a path is a sight.  *)
(* Files are numbered in the order std::sort puts their canonical paths    *)
(* in; a name that does not resolve is a file of its own.                  *)
(***************************************************************************)
EXTENDS Integers, Sequences, FiniteSets

CONSTANTS
  SharedObjects,   \* the names that end in .so
  Canonical        \* std::filesystem::canonical: the file behind a name

(* A name has NAME_MAX characters at most, so there are finitely many. *)
ASSUME NamesAssumption ==
  IsFiniteSet(SharedObjects) /\ \A name \in SharedObjects : Canonical[name] \in Nat

(* The regular files are the entries a sight of a directory has; breaks     *)
(* says that reading the directory fails after it was opened.               *)
Nothing == [is |-> "nothing"]
AFile(readable) == [is |-> "file", opens |-> readable]
Directory(opens, breaks, entries) ==
  [is |-> "directory", opens |-> opens, breaks |-> breaks, entries |-> entries]

enumerateSharedObjects(sight) == sight.entries \cap SharedObjects

(* The range-for's ++ throws: nobody catches, and the program is ended.     *)
Breaks(sight) == sight.is = "directory" /\ sight.opens /\ sight.breaks

(* std::sort and std::unique: each once, in order. *)
InOrder(files) ==
  CHOOSE s \in [1 .. Cardinality(files) -> files] : \A i, j \in DOMAIN s : i < j => s[i] < s[j]

(* One file, whatever its name; or the .so files of a folder, each once, in *)
(* the order of their canonical paths; or a failure.                        *)
collectPluginFiles(path, sight) ==
  CASE sight.is = "file" -> [files |-> <<Canonical[path]>>, failures |-> {}]
    [] sight.is = "directory" /\ sight.opens ->
         [files |-> InOrder({Canonical[name] : name \in enumerateSharedObjects(sight)}),
          failures |-> {}]
    [] OTHER -> [files |-> << >>, failures |-> {[path |-> path, reason |-> "unreadable"]}]

-----------------------------------------------------------------------------

SlotOf(slots, file) == {i \in DOMAIN slots : slots[i].file = file}

(* A bug: a slot of its own for every role a file is asked for. *)
PlaceFilePerRole(found, file, kind) ==
  IF \E i \in SlotOf(found.slots, file) : found.slots[i].kind = kind
  THEN [found EXCEPT !.files = Append(@, file)]
  ELSE [found EXCEPT !.slots = Append(@, [file |-> file, kind |-> kind]),
                     !.files = Append(@, file)]

(* One turn of discover's loop: a new file gets a slot, a known one keeps   *)
(* its own, and a known one of the other kind cannot serve as this kind.    *)
PlaceFile(found, file, kind) ==
  IF SlotOf(found.slots, file) = {}
  THEN [found EXCEPT !.slots = Append(@, [file |-> file, kind |-> kind]),
                     !.files = Append(@, file)]
  ELSE IF \E i \in SlotOf(found.slots, file) : found.slots[i].kind # kind
  THEN [found EXCEPT !.failures = @ \cup {[file |-> file, reason |-> "already in use"]}]
  ELSE [found EXCEPT !.files = Append(@, file)]

(* discover: files are the slots it returns, by their file.                 *)
discover(slots, path, sight, kind) ==
  LET collected == collectPluginFiles(path, sight)
      after[n \in 0 .. Len(collected.files)] ==
        IF n = 0 THEN [slots |-> slots, files |-> << >>, failures |-> collected.failures]
        ELSE PlaceFile(after[n - 1], collected.files[n], kind)
  IN  after[Len(collected.files)]

=============================================================================
