-------------------------- MODULE SoftwareUpdateCli --------------------------
(***************************************************************************)
(* pw_software_update/cli.py: the `pw update` subcommands that make a key, *)
(* create, sign and inspect root metadata, create an empty bundle and add  *)
(* root metadata to it.  Each invocation reads its input files, then       *)
(* rewrites its output file in place with Path.write_bytes, which opens    *)
(* the file for writing (truncating it) and then writes the bytes.         *)
(*                                                                         *)
(* Files are abstracted to what the protobuf parsers make of them: absent, *)
(* empty (b'', which FromString parses as an empty message), a partial     *)
(* write (DecodeError), or a message.  dev_sign, keys, root_metadata and  *)
(* update_bundle are not in this repository; the model keeps what the      *)
(* handlers rely on: a signature is added, a key that does not parse      *)
(* raises, and each writes its output with write_bytes.  The user runs   *)
(* one invocation at a time; a run can be killed (Ctrl-C) or its write can *)
(* fail (disk full) after the truncation.                                  *)
(***************************************************************************)
EXTENDS Naturals

CONSTANTS
    KeyFile, RootFile, BundleFile,  \* the paths given on the command line
    MaxSigs,                        \* bound on signatures of a root
    MaxRuns                         \* bound on invocations

Paths == {KeyFile, RootFile, BundleFile}

\* A file's content as the parsers see it: its kind, whether the message
\* has a body (FALSE for the empty message b'' parses as), the signatures
\* of a root, and the root metadata a bundle holds ("none", a whole root
\* or one parsed from an empty file).
Kinds == {"absent", "empty", "partial", "key", "root", "bundle"}
Contents == [t : Kinds, body : BOOLEAN, sigs : 0..MaxSigs,
             root : {"none", "whole", "empty"}]
Msg(t, body) == [t |-> t, body |-> body, sigs |-> 0, root |-> "none"]

\* FromString(b''): root metadata and bundles parse to the empty message;
\* a key of no bytes is not a key.
EmptyMessage(f) ==
    CASE f = KeyFile -> Msg("empty", FALSE)
      [] f = RootFile -> Msg("root", FALSE)
      [] f = BundleFile -> Msg("bundle", FALSE)

Commands == {"generate-key", "create-root-metadata", "sign-root-metadata",
             "inspect-root-metadata", "create-empty-bundle",
             "add-root-metadata-to-bundle", "help"}

VARIABLES
    files,      \* path -> content
    pc,         \* "idle" | "write": an invocation between truncate and write
    cmd,        \* the running subcommand
    writing,    \* the path and content the running invocation writes
    last,       \* the last invocation: command, exit status, error printed,
                \* and the content it meant its output file to hold
    runs,       \* invocations so far
    faulted     \* history: a run was killed or a write failed

vars == <<files, pc, cmd, writing, last, runs, faulted>>

\* read_bytes() then FromString(): IOError for a missing file, DecodeError
\* for a partial write, the empty message for an empty file.
ParseError(f) ==
    CASE files[f].t = "absent"  -> "IOError"
      [] files[f].t = "partial" -> "DecodeError"
      [] OTHER                  -> "none"
Parse(f) == IF files[f].t = "empty" THEN EmptyMessage(f) ELSE files[f]

\* The signing key is loaded: a key that does not parse raises.
LoadKey ==
    CASE files[KeyFile].t = "absent" -> "IOError"
      [] files[KeyFile].t = "key"    -> "ok"
      [] OTHER                       -> "KeyError"

\* dev_sign adds a signature to the root metadata.
Sign(r) == [r EXCEPT !.sigs = @ + 1]

\* The outcome of a handler's reading part: an exception, or the path it
\* writes and the content it writes there.
generate_key_handler == [out |-> KeyFile, data |-> Msg("key", TRUE)]

\* root_metadata.main reads the keys given with --append-root-key.
create_root_metadata_handler ==
    IF LoadKey # "ok" THEN [exc |-> LoadKey]
    ELSE [out |-> RootFile, data |-> Msg("root", TRUE)]

\* The root metadata is read and parsed first, then the key.
sign_root_metadata_handler ==
    IF ParseError(RootFile) # "none" THEN [exc |-> ParseError(RootFile)]
    ELSE IF LoadKey # "ok" THEN [exc |-> LoadKey]
    ELSE [out |-> RootFile, data |-> Sign(Parse(RootFile))]

\* Prints the metadata; writes nothing.
inspect_root_metadata_handler ==
    IF ParseError(RootFile) # "none" THEN [exc |-> ParseError(RootFile)]
    ELSE [exc |-> "none"]

create_empty_bundle_handler == [out |-> BundleFile, data |-> Msg("bundle", TRUE)]

\* Mutant: the new bundle is written to the --append-root-metadata path
\* instead of the bundle path (arg.append_root_metadata.write_bytes).
add_root_metadata_to_bundle_handler_wrong_out ==
    IF ParseError(BundleFile) # "none" THEN [exc |-> ParseError(BundleFile)]
    ELSE IF ParseError(RootFile) # "none" THEN [exc |-> ParseError(RootFile)]
    ELSE [out |-> RootFile,
          data |-> [Parse(BundleFile) EXCEPT !.root =
                      IF Parse(RootFile).body THEN "whole" ELSE "empty"]]

\* The bundle is read, then the root metadata, then the bundle rewritten.
add_root_metadata_to_bundle_handler ==
    IF ParseError(BundleFile) # "none" THEN [exc |-> ParseError(BundleFile)]
    ELSE IF ParseError(RootFile) # "none" THEN [exc |-> ParseError(RootFile)]
    ELSE [out |-> BundleFile,
          data |-> [Parse(BundleFile) EXCEPT !.root =
                      IF Parse(RootFile).body THEN "whole" ELSE "empty"]]

\* _parse_args: each subparser's set_defaults(func=...); with no
\* subcommand the default func prints the help.
Handler(c) ==
    CASE c = "generate-key"                -> generate_key_handler
      [] c = "create-root-metadata"        -> create_root_metadata_handler
      [] c = "sign-root-metadata"          -> sign_root_metadata_handler
      [] c = "inspect-root-metadata"       -> inspect_root_metadata_handler
      [] c = "create-empty-bundle"         -> create_empty_bundle_handler
      [] c = "add-root-metadata-to-bundle" -> add_root_metadata_to_bundle_handler
      [] c = "help"                        -> [exc |-> "none"]

\* The exit status and printed error of a handler's exception: the
\* handlers catch IOError and print it, and main() returns 0; any other
\* exception ends the process with a traceback, status 1.
ExitOf(exc) ==
    CASE exc = "none"    -> [status |-> 0, printed |-> FALSE]
      [] exc = "IOError" -> [status |-> 0, printed |-> TRUE]
      [] OTHER           -> [status |-> 1, printed |-> TRUE]

-----------------------------------------------------------------------------

Init ==
    /\ files = [f \in Paths |-> Msg("absent", FALSE)]
    /\ pc = "idle" /\ cmd = "help"
    /\ writing = [out |-> "none", data |-> Msg("absent", FALSE)]
    /\ last = [cmd |-> "help", status |-> 0, printed |-> FALSE,
               out |-> "none", data |-> Msg("absent", FALSE)]
    /\ runs = 0 /\ faulted = FALSE

\* Mutant: write_bytes opens the output before the inputs are read, so a
\* handler that then fails has already truncated its output file.
Invoke_truncate_first(c) ==
    /\ pc = "idle" /\ runs < MaxRuns
    /\ c = "sign-root-metadata" /\ files[RootFile].t = "root"
           => files[RootFile].sigs < MaxSigs
    /\ runs' = runs + 1 /\ cmd' = c
    /\ LET h == Handler(c)
           outOf == [x \in Commands |->
                       CASE x = "generate-key" -> KeyFile
                         [] x \in {"create-root-metadata",
                                   "sign-root-metadata"} -> RootFile
                         [] x \in {"create-empty-bundle",
                                   "add-root-metadata-to-bundle"} -> BundleFile
                         [] OTHER -> "none"] IN
       IF "exc" \in DOMAIN h
          THEN /\ last' = [cmd |-> c, status |-> ExitOf(h.exc).status,
                            printed |-> ExitOf(h.exc).printed,
                            out |-> "none", data |-> Msg("absent", FALSE)]
               /\ files' = IF outOf[c] = "none" THEN files
                           ELSE [files EXCEPT ![outOf[c]] = Msg("empty", FALSE)]
               /\ UNCHANGED <<pc, writing>>
          ELSE /\ files' = [files EXCEPT ![h.out] = Msg("empty", FALSE)]
               /\ writing' = h /\ pc' = "write"
               /\ UNCHANGED last
    /\ UNCHANGED faulted

\* main(): _parse_args() and _dispatch_command; the handler reads and
\* parses its inputs.  An exception ends the run; otherwise write_bytes
\* opens the output file, truncating it.
Invoke(c) ==
    /\ pc = "idle" /\ runs < MaxRuns
    /\ c = "sign-root-metadata" /\ files[RootFile].t = "root"
           => files[RootFile].sigs < MaxSigs
    /\ runs' = runs + 1 /\ cmd' = c
    /\ LET h == Handler(c) IN
       IF "exc" \in DOMAIN h
          THEN /\ last' = [cmd |-> c, status |-> ExitOf(h.exc).status,
                            printed |-> ExitOf(h.exc).printed,
                            out |-> "none", data |-> Msg("absent", FALSE)]
               /\ UNCHANGED <<files, pc, writing>>
          ELSE /\ files' = [files EXCEPT ![h.out] = Msg("empty", FALSE)]
               /\ writing' = h /\ pc' = "write"
               /\ UNCHANGED last
    /\ UNCHANGED faulted

\* The record of the running invocation as it ends.
Finished(status, printed) ==
    [cmd |-> cmd, status |-> status, printed |-> printed,
     out |-> writing.out, data |-> writing.data]

\* write_bytes writes the bytes; the handler returns and main() returns 0.
Write ==
    /\ pc = "write"
    /\ files' = [files EXCEPT ![writing.out] = writing.data]
    /\ last' = Finished(0, FALSE)
    /\ pc' = "idle"
    /\ UNCHANGED <<cmd, writing, runs, faulted>>

\* Mutant: the failed write is swallowed without printing it.
WriteFails_silent ==
    /\ pc = "write"
    /\ \E left \in {"empty", "partial"} :
          files' = [files EXCEPT ![writing.out] = Msg(left, FALSE)]
    /\ last' = Finished(0, FALSE)
    /\ pc' = "idle" /\ faulted' = TRUE
    /\ UNCHANGED <<cmd, writing, runs>>

\* The write fails (OSError, e.g. no space): nothing or part of the bytes
\* is written; the handler catches it as IOError, prints it, returns 0.
WriteFails ==
    /\ pc = "write"
    /\ \E left \in {"empty", "partial"} :
          files' = [files EXCEPT ![writing.out] = Msg(left, FALSE)]
    /\ last' = Finished(0, TRUE)
    /\ pc' = "idle" /\ faulted' = TRUE
    /\ UNCHANGED <<cmd, writing, runs>>

\* The process is killed between the truncation and the write.
Kill ==
    /\ pc = "write"
    /\ last' = Finished(130, TRUE)
    /\ pc' = "idle" /\ faulted' = TRUE
    /\ UNCHANGED <<files, cmd, writing, runs>>

Next ==
    \/ \E c \in Commands : Invoke(c)
    \/ Write \/ WriteFails \/ Kill

\* The user may stop at any point; nothing runs on its own.
Spec == Init /\ [][Next]_vars

-----------------------------------------------------------------------------

\* A file holds a message that was never written whole: bytes cut short,
\* or an empty message made from an empty file, or a bundle or signed
\* root built from one.
Damaged(c) ==
    \/ c.t \in {"empty", "partial"}
    \/ c.t \in {"root", "bundle"} /\ ~c.body
    \/ c.root = "empty"

\* The message kind each command-line path stands for.
KindOf(f) == CASE f = KeyFile -> "key" [] f = RootFile -> "root"
                [] f = BundleFile -> "bundle"

\* The types: each path holds nothing, bytes that are not a whole message,
\* or a message of its own kind (a key, root metadata, a bundle).
TypeOK ==
    /\ files \in [Paths -> Contents]
    /\ \A f \in Paths : files[f].t \in {"absent", "empty", "partial", KindOf(f)}
    /\ pc \in {"idle", "write"} /\ cmd \in Commands
    /\ last.status \in {0, 1, 130} /\ last.printed \in BOOLEAN
    /\ runs \in 0..MaxRuns /\ faulted \in BOOLEAN

\* Every handler reads and parses all of its inputs before write_bytes
\* truncates its output, so a key, root metadata file or bundle is left
\* damaged only by a killed run or a failed write, never by a command
\* that fails on a missing or unreadable input.
DamageOnlyAfterFault ==
    \A f \in Paths :
        Damaged(files[f]) => faulted \/ (pc = "write" /\ writing.out = f)

\* A run that exits 0 without printing an error has left its output file
\* holding what it wrote (the handlers print every IOError they catch).
NoSilentFailure ==
    (pc = "idle" /\ last.status = 0 /\ ~last.printed /\ last.out # "none")
        => files[last.out] = last.data

\* `pw update` exits 0 only when the subcommand did not fail: a script that
\* signs and bundles root metadata can rely on the exit status.
ExitStatusReflectsFailure ==
    last.printed => last.status # 0

=============================================================================
