------------------------------ MODULE RxcExec -------------------------------
(* How a client turns the command of an RXC_START into a process: the      *)
(* command is split into words, the first names a profile, the cache of    *)
(* the profile files is reloaded if it is old, and the others are put into *)
(* the profile's arguments. Texts are sequences of characters.             *)
EXTENDS Integers, Sequences, FiniteSets, FiniteSetsExt, SequencesExt

CONSTANTS
  Lookups,       \* commands being started, of one connection each
  Files,         \* the profile files, numbered in the order of their paths
  PatternLists,  \* what rxc_profile_files may be: a pattern is the set of
                 \* files that match it
  Documents,     \* what a file may hold: its profiles in order
  Edits,         \* bound: those that a change may write
  Commands,      \* the words a user means and how they are quoted
  MaxEdits,      \* bound: changes of files
  None, Absent, Broken, BadPattern

ASSUME FilesAssumption == Files \subseteq Nat
ASSUME PatternsAssumption == PatternLists \subseteq Seq((SUBSET Files) \cup {BadPattern})
ASSUME DocumentsAssumption == \A d \in Documents \cup Edits : d \in Seq({d[i] : i \in DOMAIN d})

VARIABLES
  file,                      \* each file: its document and its time stamp, or Absent
  edits,                     \* changes so far, which make the time stamps
  rxc_profile_files,
  throttled,                 \* rxc_profile_reload_min_interval > 0
  recent,                    \* the last check is less than that interval ago
  rxc_profile_map, rxc_profile_file_states, rxc_profile_loaded,
  rxc_profile_mtx,           \* the lookup that reloads
  at, patterns, todo,        \* where it is, and the patterns and files left
  file_states, profiles,     \* what it has collected
  early,                     \* lookups whose time is before the end of the interval
  pc, cmd, argv,             \* each lookup, its command and its words
  profile, outcome           \* the profile it resolved and the process it starts

fs == <<file, edits>>
config == <<rxc_profile_files, throttled>>
cache == <<rxc_profile_map, rxc_profile_file_states, rxc_profile_loaded>>
scan == <<at, patterns, todo, file_states, profiles>>
each == <<pc, cmd, argv, profile, outcome>>
vars == <<fs, config, recent, cache, rxc_profile_mtx, scan, early, each>>

Empty == [x \in {} |-> x]

Init ==
  /\ \E docs \in [Files -> Documents] : file = [f \in Files |-> [doc |-> docs[f], stamp |-> 0]]
  /\ edits = 0
  /\ rxc_profile_files \in PatternLists /\ throttled \in BOOLEAN /\ recent = FALSE
  /\ rxc_profile_map = Empty /\ rxc_profile_file_states = Empty /\ rxc_profile_loaded = FALSE
  /\ rxc_profile_mtx = None /\ at = "idle" /\ patterns = <<>> /\ todo = {}
  /\ file_states = Empty /\ profiles = Empty /\ early = {}
  /\ pc = [l \in Lookups |-> "none"] /\ cmd = [l \in Lookups |-> None]
  /\ argv = [l \in Lookups |-> <<>>]
  /\ profile = [l \in Lookups |-> None] /\ outcome = [l \in Lookups |-> None]

-----------------------------------------------------------------------------
(* Splitting a command.                                                    *)

\* Mutant of SplitChar: a quote alone does not start a word.
SplitCharNoEmpty(s, ch) ==
  IF s.escaped THEN [s EXCEPT !.buf = Append(@, ch), !.escaped = FALSE, !.started = TRUE]
  ELSE IF ch = "\\" THEN [s EXCEPT !.escaped = TRUE, !.started = TRUE]
  ELSE IF s.quote # "" THEN
         IF ch = s.quote THEN [s EXCEPT !.quote = ""] ELSE [s EXCEPT !.buf = Append(@, ch), !.started = TRUE]
  ELSE IF ch \in {"'", "\""} THEN [s EXCEPT !.quote = ch]
  ELSE IF ch # " " THEN [s EXCEPT !.buf = Append(@, ch), !.started = TRUE]
  ELSE IF s.started THEN [s EXCEPT !.args = Append(@, s.buf), !.buf = <<>>, !.started = FALSE]
  ELSE s

\* One character. A backslash is an escape inside quotes of either kind too.
SplitChar(s, ch) ==
  IF s.escaped THEN [s EXCEPT !.buf = Append(@, ch), !.escaped = FALSE, !.started = TRUE]
  ELSE IF ch = "\\" THEN [s EXCEPT !.escaped = TRUE, !.started = TRUE]
  ELSE IF s.quote # "" THEN
         IF ch = s.quote THEN [s EXCEPT !.quote = ""] ELSE [s EXCEPT !.buf = Append(@, ch), !.started = TRUE]
  ELSE IF ch \in {"'", "\""} THEN [s EXCEPT !.quote = ch, !.started = TRUE]
  ELSE IF ch # " " THEN [s EXCEPT !.buf = Append(@, ch), !.started = TRUE]
  ELSE IF s.started THEN [s EXCEPT !.args = Append(@, s.buf), !.buf = <<>>, !.started = FALSE]
  ELSE s

\* The words, or <<>> for a command that is refused.
split_simple_command(script) ==
  LET s == FoldLeft(SplitChar, [args |-> <<>>, buf |-> <<>>, quote |-> "", started |-> FALSE, escaped |-> FALSE], script)
  IN  IF s.escaped \/ s.quote # "" THEN <<>> ELSE IF s.started THEN Append(s.args, s.buf) ELSE s.args

TrimSpace(text) ==
  LET I == {i \in DOMAIN text : text[i] # " "}
  IN  IF I = {} THEN <<>> ELSE SubSeq(text, Min(I), Max(I))

-----------------------------------------------------------------------------
(* Expanding the arguments of a profile.                                   *)

DigitValue == [d \in {"0", "1", "2", "3", "4", "5", "6", "7", "8", "9"} |->
                 CHOOSE v \in 0 .. 9 : <<"0", "1", "2", "3", "4", "5", "6", "7", "8", "9">>[v + 1] = d]

\* strconv.Atoi of digits; 0, which is refused, stands for its error.
Atoi(text) ==
  IF text = <<>> \/ \E i \in DOMAIN text : text[i] \notin DOMAIN DigitValue THEN 0
  ELSE FoldLeft(LAMBDA v, d : 10 * v + DigitValue[d], 0, text)

\* The expansion ends at the first error; slicing backwards is a panic.
ExpandAt(expr, input, s, pos) ==
  LET until == s.buf \o SubSeq(expr, s.last, pos - 1)
      close == {j \in pos + 2 .. Len(expr) : expr[j] = "}"}
      text == SubSeq(expr, pos + 2, Min(close) - 1)
      idx == Atoi(text)
  IN  CASE s.end # "" \/ expr[pos] # "$" -> s
        [] s.end = "" /\ expr[pos] = "$" /\ s.last > pos -> [s EXCEPT !.end = "panic"]
        [] s.end = "" /\ expr[pos] = "$" /\ s.last <= pos ->
             IF pos = Len(expr) THEN [s EXCEPT !.buf = Append(until, "$"), !.last = pos + 1]
             ELSE IF expr[pos + 1] = "$" THEN [s EXCEPT !.buf = Append(until, "$"), !.last = pos + 2]
             ELSE IF expr[pos + 1] # "{" THEN [s EXCEPT !.buf = Append(until, "$"), !.last = pos + 1]
             ELSE IF close = {} \/ idx = 0 THEN [s EXCEPT !.end = "error"]
             ELSE [s EXCEPT !.buf = until \o (IF idx > Len(input) THEN <<>> ELSE input[idx]), !.last = Min(close) + 1]

expand_rxc_profile_arg(expr, input) ==
  LET s == FoldLeft(LAMBDA acc, pos : ExpandAt(expr, input, acc, pos),
                    [buf |-> <<>>, last |-> 1, end |-> ""], [i \in 1 .. Len(expr) |-> i])
  IN  [end |-> s.end, text |-> s.buf \o SubSeq(expr, s.last, Len(expr))]

All == <<"$", "{", "@", "}">>

expand_rxc_profile_args(exprs, input) ==
  FoldLeft(LAMBDA acc, expr :
             IF acc.end # "" THEN acc
             ELSE IF expr = All THEN [acc EXCEPT !.args = @ \o input]
             ELSE LET e == expand_rxc_profile_arg(expr, input)
                  IN  [end |-> e.end, args |-> Append(acc.args, e.text)],
           [end |-> "", args |-> <<>>], exprs)

-----------------------------------------------------------------------------
(* What a user writes: words quoted in one of the ways the README names,   *)
(* and templates made of pieces.                                           *)

Quoted(word, style) ==
  LET escaped(S) == FoldLeft(LAMBDA t, ch : t \o (IF ch \in S THEN <<"\\", ch>> ELSE <<ch>>), <<>>, word)
  IN  CASE style = "single" -> <<"'">> \o escaped({"'", "\\"}) \o <<"'">>
        [] style = "double" -> <<"\"">> \o escaped({"\"", "\\"}) \o <<"\"">>
        [] OTHER -> escaped({"'", "\"", "\\", " "})

Script(c) ==
  FoldLeft(LAMBDA t, word : t \o <<" ">> \o Quoted(word, c.style), <<>>, c.words)
  \o (CASE c.style = "dangling" -> <<"\\">> [] c.style = "open" -> <<" ", "'">> [] OTHER -> <<>>)

Written(piece) ==
  CASE piece.kind = "text" -> <<piece.ch>>
    [] piece.kind = "arg" -> <<"$", "{", piece.ch, "}">>
    [] piece.kind = "open" -> <<"$", "{", piece.ch>>

Expr(template) == FoldLeft(LAMBDA t, piece : t \o Written(piece), <<>>, template)

\* Every command is split once.
Split == [c \in Commands |-> split_simple_command(Script(c))]

-----------------------------------------------------------------------------
(* The files.                                                              *)

EditFile(f) ==
  /\ edits < MaxEdits /\ edits' = edits + 1
  /\ \/ \E d \in Edits \cup {Broken} : file' = [file EXCEPT ![f] = [doc |-> d, stamp |-> edits + 1]]
     \/ file[f] # Absent /\ file' = [file EXCEPT ![f] = Absent]
  /\ UNCHANGED <<config, recent, cache, rxc_profile_mtx, scan, early, each>>

IntervalPasses ==
  /\ recent /\ recent' = FALSE
  /\ UNCHANGED <<fs, config, cache, rxc_profile_mtx, scan, early, each>>

-----------------------------------------------------------------------------
(* connect_cmd and ResolveRxcProfile.                                      *)

Goto(l, p) == pc' = [pc EXCEPT ![l] = p]

\* A panic ends the program.
Panicked == \E l \in Lookups : pc[l] = "panic"

\* The command is split and the time is taken.
ConnectCmd(l) ==
  /\ ~Panicked /\ pc[l] = "none"
  /\ \E c \in Commands :
       LET words == Split[c]
           blank == words = <<>> \/ TrimSpace(Head(words)) = <<>>
       IN  /\ cmd' = [cmd EXCEPT ![l] = c] /\ argv' = [argv EXCEPT ![l] = words]
           /\ Goto(l, IF blank THEN "refused" ELSE "lock")
  /\ early' = IF recent THEN early \cup {l} ELSE early
  /\ UNCHANGED <<fs, config, recent, cache, rxc_profile_mtx, scan, profile, outcome>>

\* The throttle. A check by another lookup is later than the time of one that waits.
BeginReload(l) ==
  /\ ~Panicked /\ pc[l] = "lock" /\ rxc_profile_mtx = None
  /\ \/ /\ throttled /\ l \in early
        /\ Goto(l, "resolve")
        /\ UNCHANGED <<recent, rxc_profile_mtx, scan, early>>
     \/ /\ ~(throttled /\ l \in early)
        /\ recent' = TRUE /\ early' = early \cup {k \in Lookups \ {l} : pc[k] = "lock"}
        /\ rxc_profile_mtx' = l /\ Goto(l, "reload")
        /\ at' = "glob" /\ patterns' = rxc_profile_files /\ todo' = {}
        /\ file_states' = Empty /\ profiles' = Empty
  /\ UNCHANGED <<fs, config, cache, cmd, argv, profile, outcome>>

EndReload(l) ==
  /\ rxc_profile_mtx' = None /\ Goto(l, "resolve")
  /\ at' = "idle" /\ patterns' = <<>> /\ todo' = {} /\ file_states' = Empty /\ profiles' = Empty

Reloading(l, p) == ~Panicked /\ rxc_profile_mtx = l /\ at = p

Glob(l) ==
  /\ Reloading(l, "glob")
  /\ \/ /\ patterns = <<>> /\ at' = "stat"
        /\ UNCHANGED <<rxc_profile_mtx, patterns, todo, file_states, profiles, pc>>
     \/ /\ patterns # <<>> /\ Head(patterns) # BadPattern
        /\ todo' = todo \cup {f \in Head(patterns) : file[f] # Absent}
        /\ patterns' = Tail(patterns)
        /\ UNCHANGED <<rxc_profile_mtx, at, file_states, profiles, pc>>
     \/ patterns # <<>> /\ Head(patterns) = BadPattern /\ EndReload(l)
  /\ UNCHANGED <<fs, config, recent, cache, early, cmd, argv, profile, outcome>>

\* The files are taken in the order of their paths; one may be gone by now.
Stat(l) ==
  /\ Reloading(l, "stat")
  /\ LET f == Min(todo \ DOMAIN file_states) IN
       \/ /\ todo = DOMAIN file_states /\ at' = "compare"
          /\ UNCHANGED <<rxc_profile_mtx, patterns, todo, file_states, profiles, pc>>
       \/ /\ todo # DOMAIN file_states /\ file[f] # Absent
          /\ file_states' = [g \in DOMAIN file_states \cup {f} |->
                               IF g = f THEN file[f].stamp ELSE file_states[g]]
          /\ UNCHANGED <<rxc_profile_mtx, at, patterns, todo, profiles, pc>>
       \/ todo # DOMAIN file_states /\ file[f] = Absent /\ EndReload(l)
  /\ UNCHANGED <<fs, config, recent, cache, early, cmd, argv, profile, outcome>>

\* Changed compares the files and their stamps with those of the last load.
Compare(l) ==
  /\ Reloading(l, "compare")
  /\ \/ /\ file_states = rxc_profile_file_states /\ rxc_profile_loaded
        /\ EndReload(l)
     \/ /\ file_states # rxc_profile_file_states \/ ~rxc_profile_loaded
        /\ at' = "read"
        /\ UNCHANGED <<rxc_profile_mtx, patterns, todo, file_states, profiles, pc>>
  /\ UNCHANGED <<fs, config, recent, cache, early, cmd, argv, profile, outcome>>

Names(doc) == {doc[i].name : i \in DOMAIN doc}

\* append_client_rxc_profiles: names and scripts are not blank, names are new.
Appendable(dst, doc) ==
  /\ \A i \in DOMAIN doc : doc[i].name # <<>> /\ doc[i].script # <<>>
  /\ Cardinality(Names(doc)) = Len(doc) /\ Names(doc) \cap DOMAIN dst = {}

AppendProfiles(dst, doc) ==
  [n \in DOMAIN dst \cup Names(doc) |->
     IF n \in DOMAIN dst THEN dst[n] ELSE doc[CHOOSE i \in DOMAIN doc : doc[i].name = n]]

Readable(f) == file[f] # Absent /\ file[f].doc # Broken /\ Appendable(profiles, file[f].doc)

\* Mutant of ReadFile: the stamp is taken when the file is read.
ReadFileThenStat(l) ==
  /\ Reloading(l, "read") /\ todo # {}
  /\ LET f == Min(todo) IN
       \/ /\ Readable(f)
          /\ profiles' = AppendProfiles(profiles, file[f].doc) /\ todo' = todo \ {f}
          /\ file_states' = [g \in DOMAIN file_states |->
                               IF file[g] # Absent THEN file[g].stamp ELSE file_states[g]]
          /\ UNCHANGED <<rxc_profile_mtx, at, patterns, pc>>
       \/ ~Readable(f) /\ EndReload(l)
  /\ UNCHANGED <<fs, config, recent, cache, early, cmd, argv, profile, outcome>>

\* Open, decode and append; any failure leaves the cache as it was.
ReadFile(l) ==
  /\ Reloading(l, "read") /\ todo # {}
  /\ LET f == Min(todo) IN
       \/ /\ Readable(f)
          /\ profiles' = AppendProfiles(profiles, file[f].doc) /\ todo' = todo \ {f}
          /\ UNCHANGED <<rxc_profile_mtx, at, patterns, file_states, pc>>
       \/ ~Readable(f) /\ EndReload(l)
  /\ UNCHANGED <<fs, config, recent, cache, early, cmd, argv, profile, outcome>>

Install(l) ==
  /\ Reloading(l, "read") /\ todo = {}
  /\ rxc_profile_map' = profiles /\ rxc_profile_file_states' = file_states /\ rxc_profile_loaded' = TRUE
  /\ EndReload(l)
  /\ UNCHANGED <<fs, config, recent, early, cmd, argv, profile, outcome>>

\* The lock is taken again: another lookup may have reloaded in between.
\* Whether the reload failed only changes the message of a refusal.
Resolve(l) ==
  /\ ~Panicked /\ pc[l] = "resolve" /\ rxc_profile_mtx = None
  /\ LET name == TrimSpace(Head(argv[l])) IN
       IF name \in DOMAIN rxc_profile_map
       THEN profile' = [profile EXCEPT ![l] = rxc_profile_map[name]] /\ Goto(l, "start")
       ELSE Goto(l, "refused") /\ UNCHANGED profile
  /\ UNCHANGED <<fs, config, recent, cache, rxc_profile_mtx, scan, early, cmd, argv, outcome>>

\* The arguments are expanded and the process is started, which may fail.
StartProcess(l) ==
  /\ ~Panicked /\ pc[l] = "start"
  /\ LET p == profile[l]
         input == Tail(argv[l])
         e == IF p.args = None THEN [end |-> "", args |-> input]
              ELSE expand_rxc_profile_args([i \in DOMAIN p.args |-> Expr(p.args[i])], input)
     IN  \/ e.end # "" /\ Goto(l, IF e.end = "panic" THEN "panic" ELSE "refused") /\ UNCHANGED outcome
         \/ e.end = "" /\ Goto(l, "running") /\ outcome' = [outcome EXCEPT ![l] = [script |-> p.script, args |-> e.args]]
         \/ e.end = "" /\ Goto(l, "failed") /\ UNCHANGED outcome
  /\ UNCHANGED <<fs, config, recent, cache, rxc_profile_mtx, scan, early, cmd, argv, profile>>

Done(l) ==
  /\ ~Panicked /\ pc[l] \in {"running", "failed", "refused"}
  /\ Goto(l, "none") /\ early' = early \ {l}
  /\ cmd' = [cmd EXCEPT ![l] = None] /\ argv' = [argv EXCEPT ![l] = <<>>]
  /\ profile' = [profile EXCEPT ![l] = None] /\ outcome' = [outcome EXCEPT ![l] = None]
  /\ UNCHANGED <<fs, config, recent, cache, rxc_profile_mtx, scan>>

Reload(l) == Glob(l) \/ Stat(l) \/ Compare(l) \/ ReadFile(l) \/ Install(l)

Crashed == Panicked /\ UNCHANGED vars

Next ==
  \/ \E f \in Files : EditFile(f)
  \/ IntervalPasses
  \/ \E l \in Lookups :
       ConnectCmd(l) \/ BeginReload(l) \/ Reload(l) \/ Resolve(l) \/ StartProcess(l) \/ Done(l)
  \/ Crashed

Spec == Init /\ [][Next]_vars

-----------------------------------------------------------------------------
(* Properties.                                                             *)

Matched == {f \in Files : file[f] # Absent /\ \E i \in DOMAIN rxc_profile_files : f \in rxc_profile_files[i]}

\* While the stamps of the files are those the cache was loaded with, the
\* test of reload_rxc_profiles_if_needed may skip the load: the cache holds
\* the profiles of the files as they are, though a file may change between
\* its Stat and its Open, and a load may fail half way.
CacheCurrent ==
  (rxc_profile_loaded /\ rxc_profile_file_states = [f \in Matched |-> file[f].stamp])
    => /\ \A f \in Matched : file[f].doc # Broken
       /\ {rxc_profile_map[n] : n \in DOMAIN rxc_profile_map}
            = UNION {{file[f].doc[i] : i \in DOMAIN file[f].doc} : f \in Matched}

Positive(piece) == piece.kind = "arg" /\ piece.ch \in DOMAIN DigitValue \ {"0"}
WellFormed(template) == \A i \in DOMAIN template : template[i].kind = "text" \/ Positive(template[i])
WholeItem(template) == Len(template) = 1 /\ template[1].kind = "arg" /\ template[1].ch = "@"

Substituted(template, words) ==
  FoldLeft(LAMBDA t, piece :
             t \o (IF piece.kind = "text" THEN <<piece.ch>>
                   ELSE IF DigitValue[piece.ch] < Len(words) THEN words[DigitValue[piece.ch] + 1] ELSE <<>>),
           <<>>, template)

\* The arguments the README's table gives the words of a command.
Meant(p, words) ==
  IF p.args = None THEN Tail(words)
  ELSE FoldLeft(LAMBDA a, template :
                  IF WholeItem(template) THEN a \o Tail(words) ELSE Append(a, Substituted(template, words)),
                <<>>, p.args)

\* A template with two dollars in a row: the code means to make one of them
\* and slices backwards at the second.
TwoDollars(p) ==
  p.args # None /\ \E i \in DOMAIN p.args :
    LET expr == Expr(p.args[i]) IN \E j \in 1 .. Len(expr) - 1 : expr[j] = "$" /\ expr[j + 1] = "$"

\* A command is split into the words its user quoted. What is started is the
\* script of the profile they name with the words in the places its templates
\* give them, each word one argument; anything ill-formed is refused, and
\* nothing panics but a template with two dollars in a row (connect_cmd).
RunsWhatWasMeant ==
  \A l \in {k \in Lookups : pc[k] # "none"} :
    LET sound == cmd[l].style \notin {"dangling", "open"}
        p == profile[l]
        formed == p.args = None \/ \A i \in DOMAIN p.args : WellFormed(p.args[i]) \/ WholeItem(p.args[i])
    IN  /\ pc[l] = "panic" => TwoDollars(p)
        /\ sound => argv[l] = cmd[l].words
        /\ ~sound => pc[l] = "refused"
        /\ p # None => p.name = TrimSpace(Head(cmd[l].words)) /\ (pc[l] = "refused" <=> ~formed /\ pc[l] # "start")
        /\ pc[l] = "running" => outcome[l] = [script |-> p.script, args |-> Meant(p, cmd[l].words)]
=============================================================================
