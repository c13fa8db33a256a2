---------------------------- MODULE CommandLine ----------------------------
(***************************************************************************)
(* CommandLineArgs.cpp: what becomes of an argument vector.  An argument   *)
(* is a flag, junk (no key and value in it), or a key with a value; keys   *)
(* and values are compared and never taken apart.  A message is a record   *)
(* of its category and what it names: the order of the names and all       *)
(* wording are layout.                                                     *)
(***************************************************************************)
EXTENDS Integers

CONSTANT ReadsAs   \* std::from_chars: the number a text is, or -1 if it is none or too large

Modes == {"comparative", "competition"}
KnownKeys == {"simulation", "algorithm", "mission_control", "algorithms_folder",
              "mission_control_folder", "num_threads"}

IsFlag(token) == token.is = "flag"
IsPair(token) == token.is = "pair"

fixedPluginKey(mode)  == IF mode = "comparative" THEN "algorithm" ELSE "mission_control"
variedPluginKey(mode) == IF mode = "comparative" THEN "mission_control_folder" ELSE "algorithms_folder"
isKeyValidInMode(key, mode) ==
  key \in {"simulation", "num_threads", fixedPluginKey(mode), variedPluginKey(mode)}

Nowhere == ""     \* an empty path, as of an argument that was never given

NoArguments ==
  [flags |-> {}, values |-> << >>, unsupported |-> {}, duplicated |-> {}, empty_valued |-> {}]

(* A bug: a repeated key replaces the value, and nobody is told. *)
TokenizeLastWins(raw, token) ==
  CASE IsFlag(token) -> [raw EXCEPT !.flags = @ \cup {token.flag}]
    [] IsPair(token) /\ token.key \in KnownKeys ->
         IF token.value = Nowhere
         THEN [raw EXCEPT !.empty_valued = @ \cup {token.key}]
         ELSE [raw EXCEPT !.values =
                 [k \in DOMAIN @ \cup {token.key} |-> IF k = token.key THEN token.value ELSE @[k]]]
    [] OTHER -> [raw EXCEPT !.unsupported = @ \cup {token}]

(* One turn of tokenize's loop.  The first value of a key stays. *)
Tokenize(raw, token) ==
  CASE IsFlag(token) -> [raw EXCEPT !.flags = @ \cup {token.flag}]
    [] IsPair(token) /\ token.key \in KnownKeys ->
         IF token.value = Nowhere THEN [raw EXCEPT !.empty_valued = @ \cup {token.key}]
         ELSE IF token.key \in DOMAIN raw.values
         THEN [raw EXCEPT !.duplicated = @ \cup {token.key}]
         ELSE [raw EXCEPT !.values =
                 [k \in DOMAIN @ \cup {token.key} |-> IF k = token.key THEN token.value ELSE @[k]]]
    [] OTHER -> [raw EXCEPT !.unsupported = @ \cup {token}]

-----------------------------------------------------------------------------

Message(category, names) == IF names = {} THEN {} ELSE {[category |-> category, names |-> names]}

ModesOf(raw) == raw.flags \cap Modes
ModeKnown(raw) == \E mode \in Modes : ModesOf(raw) = {mode}
ModeOf(raw) == IF ModeKnown(raw) THEN CHOOSE mode \in Modes : mode \in raw.flags
               ELSE "comparative"                \* RunMode's default

RequiredKeys(mode) == {"simulation", fixedPluginKey(mode), variedPluginKey(mode)}

(* Neither what is missing nor what belongs to the other mode can be said   *)
(* before the mode is known.                                                *)
ModeErrors(raw) ==
  IF ~ModeKnown(raw) THEN {[category |-> "run mode", names |-> ModesOf(raw)]}
  ELSE LET mode == ModeOf(raw) IN
    Message("wrong mode", {key \in DOMAIN raw.values : ~isKeyValidInMode(key, mode)})
      \cup Message("missing", RequiredKeys(mode) \ DOMAIN raw.values)

(* 0 threads besides main is what 1 means already. *)
parseNumThreads(value) == IF ReadsAs[value] = 0 THEN 1 ELSE ReadsAs[value]

BadThreads(raw) ==
  "num_threads" \in DOMAIN raw.values /\ ReadsAs[raw.values["num_threads"]] < 0

ParseErrors(raw) ==
  Message("unsupported", raw.unsupported)
    \cup Message("more than once", raw.duplicated)
    \cup Message("empty value", raw.empty_valued)
    \cup ModeErrors(raw)
    \cup (IF BadThreads(raw) THEN Message("num_threads", {raw.values["num_threads"]}) ELSE {})

(* CommandLineArgs: the roles, taken out of the values only in a known mode. *)
Taken(raw, key) ==
  IF ModeKnown(raw) /\ key \in DOMAIN raw.values THEN raw.values[key] ELSE Nowhere

ArgsOf(raw) ==
  [mode |-> ModeOf(raw),
   composition_file |-> Taken(raw, "simulation"),
   fixed_plugin_file |-> Taken(raw, fixedPluginKey(ModeOf(raw))),
   varied_plugin_folder |-> Taken(raw, variedPluginKey(ModeOf(raw))),
   num_threads |-> IF "num_threads" \in DOMAIN raw.values /\ ~BadThreads(raw)
                   THEN parseNumThreads(raw.values["num_threads"]) ELSE 1,
   verbose |-> "verbose" \in raw.flags]

=============================================================================
