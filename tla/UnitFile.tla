------------------------------ MODULE UnitFile ------------------------------
(***************************************************************************)
(* The text of the unit file: what `service install` accepts, resolves and *)
(* writes, what systemd makes of it, and what `service status` and         *)
(* `service uninstall` read back. A text is a sequence of symbols: one     *)
(* character each, but for the keys of the unit file, the two names        *)
(* "pipeferry" and "pipeferry.exe", the words of the command line and the  *)
(* runtime directory, which are one symbol. Only what the quoting and the  *)
(* readers tell apart is kept.                                             *)
(***************************************************************************)
EXTENDS Cli, SequencesExt

CONSTANTS
    Characters, \* those that nothing here treats differently
    Requests,   \* [name, exe, args]: the socket name and the child asked for
    Paths,      \* the absolute paths a look-up may come back with
    Edits       \* socket names found in a unit file that somebody has edited

VARIABLES
    request,
    pc,     \* how far install has come, and its readers
    self,   \* the resolved path of pipeferry
    child,  \* the child as it is registered
    unit,   \* the text of the unit file
    argv,   \* what systemd starts: a sequence of texts, none if it refuses
    known,  \* the socket name that status and uninstall find; <<>> for none
    edited, \* the unit file is not the one that was written
    code    \* the exit code of install

vars == <<request, pc, self, child, unit, argv, known, edited, code>>

NameKey == "# Pipeferry-SocketName="
CommandKey == "ExecStart=:"
Quote == "\""
Blank == " "

Symbols ==
    Characters \cup
    {"nl", Blank, "/", ".", "\\", Quote, "%", "t", "pipeferry", "pipeferry.exe", "RUNTIME",
     "specifier", "[Service]", NameKey, CommandKey, "unix-listen", "--socket", "limits", "--"}

Text == Seq(Symbols)

NoText == <<>>
Bad == <<>>

IsAbs(text) == text # NoText /\ text[1] = "/"

\* filepath.Abs and exec.LookPath return nothing else.
ASSUME UnitFileAssumption ==
    /\ Requests \subseteq [name : Text, exe : Text, args : Seq(Text)]
    /\ Paths \subseteq {path \in Text : IsAbs(path)}
    /\ Edits \subseteq Text

\* `step` for each symbol of a text in turn, from a first state.
Fold(step, first, text) ==
    LET after[i \in 0..Len(text)] == IF i = 0 THEN first ELSE step[after[i - 1]][text[i]]
    IN  after[Len(text)]

-----------------------------------------------------------------------------
(* Validation.                                                              *)

validateUnitValue(text) == text # NoText /\ "nl" \notin ToSet(text)

validateSocketName(name) ==
    /\ name \notin {NoText, <<".">>, <<".", ".">>}
    /\ ~IsAbs(name)
    /\ ToSet(name) \cap {"/", "\\"} = {}
    /\ ~ \E i \in 1..Len(name) - 1 : name[i] = "." /\ name[i + 1] = "."
    /\ validateUnitValue(name)

\* The name of the service and the two numbers have no part in the text's shape.
validateServiceConfig(r) ==
    /\ validateSocketName(r.name)
    /\ validateUnitValue(r.exe)
    /\ \A arg \in ToSet(r.args) : validateUnitValue(arg)

-----------------------------------------------------------------------------
(* Rendering.                                                               *)

substitution(symbol, by) ==
    [out \in Text |-> [c \in Symbols |-> out \o (IF c = symbol THEN by ELSE <<c>>)]]

Replaced(text, symbol, by) == Fold(substitution(symbol, by), NoText, text)

Prefix == <<"%", "t", "/", "pipeferry", "/">>

\* The variant escapes the quotes first.
quoteQuotesFirst(text, preserve) ==
    LET escaped == Replaced(Replaced(text, Quote, <<"\\", Quote>>), "\\", <<"\\", "\\">>)
    IN  <<Quote>> \o (IF preserve THEN <<"%", "t">> \o Replaced(SubSeq(escaped, 3, Len(escaped)), "%", <<"%", "%">>)
                     ELSE Replaced(escaped, "%", <<"%", "%">>)) \o <<Quote>>

quoteSystemdArgument(text, preserve) ==
    LET escaped == Replaced(Replaced(text, "\\", <<"\\", "\\">>), Quote, <<"\\", Quote>>)
        percent(t) == Replaced(t, "%", <<"%", "%">>)
    IN  <<Quote>> \o (IF preserve THEN <<"%", "t">> \o percent(SubSeq(escaped, 3, Len(escaped)))
                     ELSE percent(escaped)) \o <<Quote>>

\* --shutdown-timeout and --max-connections, with values that need no quoting.
Arguments(path, name, command) ==
    <<path, <<"unix-listen">>, <<"--socket">>, Prefix \o name, <<"limits">>, <<"--">>>> \o command

joining == [line \in Text |-> [word \in Text |-> line \o <<Blank>> \o word]]

Spaced(words) == Fold(joining, Head(words), Tail(words))

Quoted(arguments) ==
    [i \in DOMAIN arguments |->
        quoteSystemdArgument(arguments[i], IsPrefix(Prefix, arguments[i]))]

renderServiceUnit(path, name, command) ==
    <<"[Service]", "nl", NameKey>> \o name \o
    <<"nl", CommandKey>> \o Spaced(Quoted(Arguments(path, name, command))) \o <<"nl">>

-----------------------------------------------------------------------------
(* The readers.                                                             *)

\* Where a line begins with `key`, and what stands after it on the line.
Keys(text, key) == {i \in DOMAIN text : text[i] = key /\ (i = 1 \/ text[i - 1] = "nl")}

Value(text, i) ==
    SubSeq(text, i + 1, Min({j \in i..Len(text) : text[j] = "nl"} \cup {Len(text) + 1}) - 1)

\* The variant takes the first name as it stands.
readFirstName(text) ==
    LET named == Keys(text, NameKey)
    IN  IF named = {} THEN NoText ELSE Value(text, Min(named))

\* The first name that is one.
readUnitSocketName(text) ==
    LET named == {i \in Keys(text, NameKey) : validateSocketName(Value(text, i))}
    IN  IF named = {} THEN NoText ELSE Value(text, Min(named))

\* systemd, word by word: quotes and C escapes first (of which only the two that
\* stand for themselves occur) ...
ReadSymbol(s, c) ==
    CASE s.escape -> IF c \in {"\\", Quote} THEN [s EXCEPT !.escape = FALSE, !.word = Append(@, c)]
                     ELSE [s EXCEPT !.bad = TRUE]
      [] ~s.escape /\ c = "\\" -> [s EXCEPT !.escape = TRUE]
      [] ~s.escape /\ c = Quote -> [s EXCEPT !.quoted = ~@]
      [] ~s.escape /\ c = Blank /\ ~s.quoted -> [s EXCEPT !.words = Append(@, s.word), !.word = NoText]
      [] OTHER -> [s EXCEPT !.word = Append(@, c)]

\* ... then the specifiers of each word: %% and %t; the others name something else.
Expand(s, c) ==
    CASE s.percent /\ c = "%" -> [percent |-> FALSE, out |-> Append(s.out, "%")]
      [] s.percent /\ c = "t" -> [percent |-> FALSE, out |-> Append(s.out, "RUNTIME")]
      [] s.percent /\ c \notin {"%", "t"} -> [percent |-> FALSE, out |-> Append(s.out, "specifier")]
      [] ~s.percent /\ c = "%" -> [s EXCEPT !.percent = TRUE]
      [] OTHER -> [s EXCEPT !.out = Append(@, c)]

Reader == [words : Seq(Text), word : Text, quoted : BOOLEAN, escape : BOOLEAN, bad : BOOLEAN]

reading   == [s \in Reader |-> [c \in Symbols |-> ReadSymbol(s, c)]]
expanding == [s \in [percent : BOOLEAN, out : Text] |-> [c \in Symbols |-> Expand(s, c)]]

Expanded(word) == Fold(expanding, [percent |-> FALSE, out |-> NoText], word).out

Words(line) ==
    LET start == [words |-> <<>>, word |-> NoText, quoted |-> FALSE, escape |-> FALSE, bad |-> FALSE]
        end   == Fold(reading, start, line)
        words == Append(end.words, end.word)
    IN  IF end.bad \/ end.quoted \/ end.escape THEN Bad
        ELSE [k \in DOMAIN words |-> Expanded(words[k])]

\* systemd takes neither of these in the path of an executable.
Executable(path) == ToSet(path) \cap {"\\", Quote} = {}

Loaded(words) == IF words # Bad /\ Executable(words[1]) THEN words ELSE Bad

\* A simple service has exactly one command.
ExecStart(text) ==
    IF \E i \in DOMAIN text : Keys(text, CommandKey) = {i}
    THEN Loaded(Words(Value(text, Min(Keys(text, CommandKey))))) ELSE Bad

-----------------------------------------------------------------------------
(* install, then systemd, status and uninstall.                             *)

Init ==
    /\ request \in Requests
    /\ pc = "args"
    /\ self = NoText /\ child = <<>> /\ unit = NoText
    /\ argv = <<>> /\ known = NoText
    /\ edited = FALSE
    /\ code = ExitOK

Fails(err) ==
    /\ pc' = "exited"
    /\ code' = exitCode(err)
    /\ UNCHANGED <<request, self, child, unit, argv, known, edited>>

Validate ==
    /\ pc = "args"
    /\ IF validateServiceConfig(request)
       THEN pc' = "resolve" /\ UNCHANGED <<request, self, child, unit, argv, known, edited, code>>
       ELSE Fails(Error(ExitUsage))

\* pipeferry.exe is looked for in PATH and then in the file the installer leaves;
\* a file that is not there changes nothing, one that names no file is an error.
\* An absolute child is taken as it is, any other is looked for in PATH.
Child(found, config, path) ==
    CASE request.exe = <<"pipeferry.exe">> /\ (found \/ config = "names a file") -> path
      [] request.exe = <<"pipeferry.exe">> /\ ~found /\ config = "bad" -> NoText
      [] IsAbs(request.exe) -> request.exe
      [] OTHER -> IF found THEN path ELSE NoText

Resolve ==
    /\ pc = "resolve"
    /\ \/ Fails(Error(ExitNotFound))   \* of os.Args[0], or of the child
       \/ \E found \in BOOLEAN, config \in {"missing", "bad", "names a file"},
             own \in Paths, path \in Paths :
              /\ Child(found, config, path) # NoText
              /\ self' = own
              /\ child' = <<Child(found, config, path)>> \o request.args
              /\ pc' = "render"
              /\ UNCHANGED <<request, unit, argv, known, edited, code>>

\* The variant finds out about a bad value when the unit is written.
RenderFirst ==
    /\ pc = "render"
    /\ unit' = renderServiceUnit(self, request.name, child)
    /\ IF \A value \in {self} \cup ToSet(child) : validateUnitValue(value)
       THEN pc' = "installed" /\ UNCHANGED code
       ELSE pc' = "exited" /\ code' = ExitUsage
    /\ UNCHANGED <<request, self, child, argv, known, edited>>

\* The paths that the look-ups came back with are looked at here for the first time.
Render ==
    /\ pc = "render"
    /\ IF /\ validateUnitValue(self) /\ validateUnitValue(request.name)
          /\ \A value \in ToSet(child) : validateUnitValue(value)
       THEN /\ unit' = renderServiceUnit(self, request.name, child)
            /\ pc' = "installed"
            /\ UNCHANGED <<request, self, child, argv, known, edited, code>>
       ELSE Fails(Error(ExitUsage))

\* daemon-reload and restart; and whoever asks for the socket name.
Read ==
    /\ pc = "installed"
    /\ pc' = "read"
    /\ argv' = ExecStart(unit)
    /\ known' = readUnitSocketName(unit)
    /\ UNCHANGED <<request, self, child, unit, edited, code>>

\* Somebody changes the name in the unit file, or adds a line with another.
Edit ==
    /\ pc = "installed" /\ ~edited
    /\ edited' = TRUE
    /\ \E name \in Edits :
           unit' \in {<<NameKey>> \o name \o <<"nl">> \o rest :
                          rest \in {NoText, unit}}
    /\ UNCHANGED <<request, pc, self, child, argv, known, code>>

Next == Validate \/ Resolve \/ Render \/ Edit \/ Read

Spec == Init /\ [][Next]_vars

-----------------------------------------------------------------------------
(* Properties.                                                              *)

\* What systemd starts, other than a bad line.
IsArgv == argv # Bad /\ Len(argv) = 6 + Len(child)

\* Types; and an install that fails in its validation, its look-ups or the rendering
\* has written no unit.
TypeOK ==
    /\ pc \in {"args", "resolve", "render", "installed", "read", "exited"}
    /\ self \in {NoText} \cup Paths
    /\ code \in {ExitOK, ExitUsage, ExitNotFound}
    /\ code # ExitOK => pc = "exited" /\ unit = NoText

\* %t in front of the directory of the sockets, which an argument of the child may
\* start with as well.
Runtime(text) == IF IsPrefix(Prefix, text) THEN <<"RUNTIME">> \o SubSeq(text, 3, Len(text)) ELSE text

\* Every argument comes back from the unit file as it was given, whatever quotes,
\* backslashes, blanks and percent signs it is made of, but for %t in front of
\* /pipeferry/; no value can end its line or add one, and the child is started by
\* the path that was found at the installation. Only a pipeferry whose own path has a
\* quote or a backslash does not come back: install writes it, and systemd refuses it.
ArgvSaved ==
    (pc = "read" /\ ~edited) =>
        /\ ~Executable(self) => argv = Bad
        /\ Executable(self) =>
            /\ IsArgv
            /\ argv[1] = self
            /\ argv[4] = <<"RUNTIME", "/", "pipeferry", "/">> \o request.name
            /\ IsAbs(child[1])
            /\ \A k \in DOMAIN child : argv[6 + k] = Runtime(child[k])
            /\ Tail(child) = request.args

\* The socket that status asks for and uninstall removes is the one the service
\* listens on; and whatever has become of the unit file, it is a file directly in
\* the directory of the sockets.
NameKnown ==
    pc = "read" =>
        /\ ~edited => known = request.name
        /\ known # NoText =>
               ToSet(known) \cap {"/", "\\", "nl"} = {} /\ known \notin {<<".">>, <<".", ".">>}
=============================================================================
