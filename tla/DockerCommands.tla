--------------------------- MODULE DockerCommands ---------------------------
(***************************************************************************)
(* The typed builders of remote commands (backend/src/libs/docker.rs).     *)
(*                                                                         *)
(* Text is a sequence of symbols.  Names, images and paths are built from  *)
(* single characters, because quoting and path joining are about           *)
(* characters; a fixed word of a command, such as "docker", is one symbol. *)
(***************************************************************************)
EXTENDS Naturals, Sequences, SequencesExt

CONSTANTS
    NameLimit,    \* 63 in the code
    ImageLimit    \* 255 in the code

Space == " "
Alphanumeric == {"a", "A", "0", "missing-image"}
LowerOrDigit == {"a", "0"}

ValidateServiceName(name) ==
    /\ name # <<>> /\ name[1] \in LowerOrDigit
    /\ Len(name) <= NameLimit
    /\ \A i \in 2 .. Len(name) : name[i] \in LowerOrDigit \cup {".", "-", "_"}

ValidateImageReference(image) ==
    /\ image # <<>> /\ Len(image) <= ImageLimit
    /\ \A i \in DOMAIN image :
          image[i] \in Alphanumeric \cup {".", "_", "-", ":", "/", "@"}

-----------------------------------------------------------------------------
(* Commands are sequences of tokens: fixed text, or a value to be quoted.  *)

Lit(text) == [literal |-> TRUE, text |-> text]
Arg(value) == [literal |-> FALSE, text |-> value]

(* Variant: the quotes inside a value are left as they are.                *)
ShellQuoteSimple(value) == <<"'">> \o value \o <<"'">>

(* Quote a value; a quote inside it is closed, escaped and reopened.       *)
ShellQuote(value) ==
    <<"'">>
    \o FlattenSeq([i \in DOMAIN value |->
                      IF value[i] = "'" THEN <<"'", "\\", "'", "'">> ELSE <<value[i]>>])
    \o <<"'">>

Render(command) ==
    LET piece(token) == IF token.literal THEN token.text ELSE ShellQuote(token.text)
    IN  FlattenSeq([i \in DOMAIN command |->
                       IF i = 1 THEN piece(command[i]) ELSE <<Space>> \o piece(command[i])])

-----------------------------------------------------------------------------
(* Paths and names.                                                        *)

TrimEnd(path) ==
    SubSeq(path, 1, SelectLastInSeq(path, LAMBDA c : c # "/"))

TrimStart(path) ==
    LET first == SelectInSeq(path, LAMBDA c : c # "/")
    IN  IF first = 0 THEN <<>> ELSE SubSeq(path, first, Len(path))

(* Variant: the parent keeps its slashes and none is put in between.       *)
PathJoinPlain(parent, child) == parent \o TrimStart(TrimEnd(child))

PathJoin(parent, child) ==
    LET p == TrimEnd(parent)
        c == TrimStart(TrimEnd(child))
    IN  IF c = <<>> THEN IF p = <<>> THEN <<"/">> ELSE p ELSE p \o <<"/">> \o c

ContainerName(service) == <<"wara-">> \o service
BuiltImageName(service) == <<"wara", "/">> \o service \o <<":latest">>
ServiceDir(root, service) == PathJoin(root, service)

-----------------------------------------------------------------------------
(* The commands of each kind of deployment.                                *)

RunContainer(service, image) ==
    << <<Lit(<<"docker", Space, "rm", Space, "-f">>), Arg(ContainerName(service)),
         Lit(<<"||", Space, "true">>)>>,
       <<Lit(<<"docker", Space, "run", Space, "-d", Space, "--name">>), Arg(ContainerName(service)),
         Lit(<<"--restart", Space, "unless-stopped">>), Arg(image)>> >>

ImageDeployCommands(image, service) ==
    << <<Lit(<<"docker", Space, "pull">>), Arg(image)>> >> \o RunContainer(service, image)

ComposeDeployCommands(service, config) ==
    LET dir == ServiceDir(config.root, service)
    IN  << <<Lit(<<"mkdir", Space, "-p">>), Arg(dir)>>,
           <<Lit(<<"cd">>), Arg(dir),
             Lit(<<"&&", Space, "docker", Space, "compose", Space, "up", Space, "-d">>)>> >>

DockerfileDeployCommands(service, config) ==
    LET context == PathJoin(ServiceDir(config.root, service), config.context)
        image == BuiltImageName(service)
    IN  << <<Lit(<<"docker", Space, "build", Space, "-t">>), Arg(image), Arg(context)>> >>
        \o RunContainer(service, image)

RestartCommand(service) == <<Lit(<<"docker", Space, "restart">>), Arg(ContainerName(service))>>

-----------------------------------------------------------------------------
(* Reference definitions: how a POSIX shell reads a line, and where a path *)
(* leads.  They are independent of the builders.                           *)

Word(text) == [operator |-> FALSE, text |-> text]
Operator(text) == [operator |-> TRUE, text |-> text]
Operators == {"||", "&&", ";"}

(* The reader: whether it is in a quote or after a backslash, whether it   *)
(* has a word at hand and which, and the words finished.  The same reader  *)
(* takes a path apart: then nothing but a slash means anything to it.      *)
Reading(mode, open, word, words) ==
    [mode |-> mode, open |-> open, word |-> word, words |-> words]

Between(words) == Reading("plain", FALSE, <<>>, words)
Blank == Between(<<>>)

Close(st) ==
    IF st.open THEN Reading(st.mode, FALSE, <<>>, Append(st.words, Word(st.word))) ELSE st

Take(st, c) == Reading(IF st.mode = "escape" THEN "plain" ELSE st.mode, TRUE,
                       Append(st.word, c), st.words)

ReadSymbol(st, c) ==
    CASE st.mode = "path" -> IF c = "/" THEN Close(st) ELSE Take(st, c)
      [] st.mode = "quote" ->
            IF c = "'" THEN Reading("plain", st.open, st.word, st.words) ELSE Take(st, c)
      [] st.mode = "escape" -> Take(st, c)
      [] OTHER ->
            CASE c = "'" -> Reading("quote", TRUE, st.word, st.words)
              [] c = "\\" -> Reading("escape", st.open, st.word, st.words)
              [] c = Space -> Close(st)
              [] c \in Operators -> Between(Append(Close(st).words, Operator(<<c>>)))
              [] OTHER -> Take(st, c)

(* What the shell makes of a line; an unfinished quote is no reading.      *)
ShellReads(line) ==
    LET st == FoldLeft(ReadSymbol, Blank, line)
    IN  IF st.mode = "plain" THEN Close(st).words ELSE <<>>

(* What the builder of a command means by it.                              *)
Meaning(command) ==
    FlattenSeq([i \in DOMAIN command |->
        IF command[i].literal THEN ShellReads(command[i].text) ELSE <<Word(command[i].text)>>])

(* The components of a path: what stands between its slashes, a dot and    *)
(* two dots as much as a name.                                             *)
Components(path) ==
    LET words == Close(FoldLeft(ReadSymbol, Reading("path", FALSE, <<>>, <<>>), path)).words
    IN  [i \in DOMAIN words |-> words[i].text]

(* A place: names to go down, from the root of the file system or from so  *)
(* many levels above the directory that a relative path starts in.         *)
Place(absolute, up, names) == [absolute |-> absolute, up |-> up, names |-> names]
Here == Place(FALSE, 0, <<>>)
Below(at, names) == Place(at.absolute, at.up, at.names \o names)

(* One component: a dot stays, two dots go up (the root is its own parent) *)
(* and a name goes down.  Symbolic links are left out.                     *)
Follow(at, name) ==
    CASE name = <<".">> -> at
      [] name = <<".", ".">> ->
            IF at.names # <<>> THEN Place(at.absolute, at.up, Front(at.names))
            ELSE IF at.absolute THEN at ELSE Place(FALSE, at.up + 1, <<>>)
      [] OTHER -> Place(at.absolute, at.up, Append(at.names, name))

Walk(at, names) == FoldLeft(Follow, at, names)

Absolute(path) == path # <<>> /\ path[1] = "/"

(* Where a path leads.                                                     *)
Locate(path) == Walk(Place(Absolute(path), 0, <<>>), Components(path))

=============================================================================
