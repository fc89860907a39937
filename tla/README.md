# TLA+ models of Pigweed's Python tooling

This directory holds TLA+ models of the parts of the Python code under `src/`
that have state, concurrency or protocol. Each module is checked with TLC. The
file list, runs, mutants, source map, findings and hazards are in
`PROJECT.json`. This README explains them.

## 1. Inventory

| Component | Source | State | Operations | Concurrency / hard behaviour |
|---|---|---|---|---|
| Watch directory selection | `pw_watch/watch.py` `minimal_watch_directories`, `watch` | exclude list, the `exclude_dir_parents` set, scheduled observers | reformat excludes, yield `(dir, recursive)`, schedule observer, initial press | nested excludes; `relative_to` raising `ValueError` |
| Build watcher | `pw_watch/watch.py` `PigweedBuildWatcher` | `matching_path`, `restart_flag` (BUILDER_CONTEXT), debouncer state, the executor's recipe queue | `dispatch`, `rebuild`, `run`, `run_recipe`, `cancel`, `on_complete` | observer threads, keypress thread, debouncer timer thread, worker pool |
| Watch setup / CLI | `watch_setup`, `get_common_excludes`, `main` | configuration | argument handling | worker count 0; build dirs added to the excludes |
| Tokenizer decoder (tests) | `pw_tokenizer/py/decode_test.py` | argument bytes, directive list | varint / zig-zag decode, directive decode, `score` | truncated args, skip propagation, score ordering |
| RP2040 flasher / test runner | `rp2040_utils/flasher.py`, `unit_test_runner.py` | device mode, serial port, elapsed time | flash, wait for serial port (10 s), run test, exit code | timeout vs. late port, exit status of auto-detect path |
| Log pane | `pw_console/log_pane.py` | drag flags, focus, pane size, duplicates | mouse events, key bindings, resize, duplicate/remove | drag release outside pane; negative height |
| Device log stream | `pw_system/device.py` | stream open/closed | on_next, on_error (reopen), on_completed | a completed stream is not reopened; level 0 |
| Software update CLI | `pw_software_update/cli.py` | bundle and metadata files | add/sign root metadata (in-place), create bundle, keygen | errors swallowed, exit 0 |
| Pigweed Live schedule | `pw_docgen/sphinx/pigweed_live.py` | meeting list, now | `_find_next_meeting`, import | machine clock vs. Pacific time, list runs out, missing pytz |
| Stateless tools | `aliases.py`, `mcuxpresso.py`, `console_tools/__init__.py`, `format/cpp.py`, `setup.py`, `gen_file_list.py` | none | none | none; not modelled |

## 2. Plan (most important first)

1. `WatchDirectories`: which directories are observed, and how often each file change reaches the handler. Done.
2. `BuildWatcher`: the build state machine across observer, keypress, debouncer and worker threads. Done, except that the debouncer is modelled as an interface.
3. `PicoFlasher` and `PicoTestRunner`: `flash`, the two copies of the wait-for-serial-port loop with time as a bounded counter, and `main`'s exit status. Done.
4. `LogPaneControl`: the mouse drag flags, focus routing, toolbar buttons, key bindings and pane size. Done, except for LogView's internals.
5. `LogPanes`: duplicate/remove and the subtitle. Done.
6. `DeviceLogStream`: the Listen stream's life cycle and the level mapping. Done.
7. `FlashContract`: an abstract contract for `flash()`. Dropped. Its deadline check repeated `WaitHead`'s guard, and its return step repeated `ConnectedToTarget`, so the refinement added nothing to the invariants.
8. `SoftwareUpdateCli`: the `pw update` subcommands on shared files, the in-place rewrite (a kill between truncate and write), and the swallowed `IOError` with exit status 0. Done.
9. `NextMeeting`: `_find_next_meeting` over the meeting list as time passes, and the extension's import. Done.
10. Not done: `FormatDecode`, the tokenizer's argument decoding. Section "Not modelled" gives the reasons.
   Each of these needs a run of its own. The twelve runs in `PROJECT.json` go to the components above; further disagreements are kept as side checks (section 4).

Each module has an `MC_<Module>.tla`, which gives the constants small values, and one `.cfg` per run.

## 3. Modules

### WatchDirectories (`watch.py` 573-666, 771-789, 843-936)

The module works on paths written as sequences of names. The constants `Dirs` and `Files` give the filesystem tree, and `ToWatch` is `Path.cwd()`. The exclude list is composed the way `watch_setup` builds it. The inputs are `ExcludeLists` (`--exclude-list` values), `BuildDirLists` (the recipes' build directories), `PwRoots` and `ProjectRoots` (the environment variables; `NoEnv` means unset).

| Definition | Code |
|---|---|
| `WatchSetup` | `watch_setup` up to the exclude list, on the main thread. An unset `PW_ROOT` or `PW_PROJECT_ROOT` raises `KeyError`, because `os.environ[...]` is never `None`. A working directory that is neither `PW_ROOT` nor one of its parents stops the program with `_exit_due_to_pigweed_not_installed`. Otherwise the exclude list is the user's list, plus `get_common_excludes` (the typical ignored directories under both roots, and the legacy directories that exist), plus the build directories. |
| `ReformatExcludes` | Keeps the excluded paths that are directories. Builds `exclude_dir_parents` from the parts of each `relative_to(to_watch)`. A directory outside `to_watch` makes this raise `ValueError`, which moves the model to `phase = "crashed"` (`ThreadDies`). |
| `YieldDirectory` | One iteration of the loop over `exclude_dir_parents`. It yields `(d, False)`, plus `(c, True)` for each child directory that is neither a parent nor excluded. It also schedules those observers. |
| `StartWatching` | The press for the initial build. |
| `FileChanged` | A file changes, and every observer whose watch covers it reports the event. |
| `ObserverFails` | `Observer()`, `schedule` or `start` raises `OSError` with an errno from `SetupErrors`. The observers started before it keep running. |
| `OnSetupError` | The `except OSError` of `watch()`. The inotify watch limit (errno 28) and the instance limit (`EMFILE`) end the program, through `watch_app.exit`, `BUILDER_CONTEXT.exit` or `_exit(1)`. The first two are outside this repository and are taken to end the program. Any other errno is re-raised. |
| `ThreadDies` | An exception that leaves `watch()`. `run_watch` runs `watch()` on the main thread, where the traceback ends the program, or, with `--fullscreen`, on a daemon thread, where only that thread ends and the app stays up. |

The code iterates over a set, so the loop order is undefined. The model therefore picks the next directory with `\E`.

### BuildWatcher (`watch.py` 113-474)

| Variable or definition | Code |
|---|---|
| `matching_path` | `self.matching_path` |
| `restart_flag` | `BUILDER_CONTEXT.restart_flag` |
| `queue` / `active` | Recipes submitted to the `ThreadPoolExecutor` but not started yet (`queue`), and the ones running on a worker (`active`). The executor has `Workers` workers. |
| `status` | Each recipe's outcome. |
| `Dispatch` | The whole of `dispatch` and `_handle_matched_event`. It takes the event type filter, the directory filter, `dest_path` before `src_path`, and the first path that matches and is not git-ignored. It sets `matching_path` only when it is `None`, and calls `press` when `restart_on_changes` is set. |
| `Rebuild` | The Enter key, i.e. `rebuild` and `_wait_for_enter`. |
| `Run` | `run`: builds the announcement from `matching_path`, clears the restart flag, resets the status, and submits every recipe. |
| `RunRecipe` | The early returns on `interrupted()` and `not cfg.enabled`. |
| `RecipeFinished` | Recipe execution; a restart makes a running recipe fail. |
| `Complete` | `on_complete`, which clears `matching_path`. |

The debouncer (`pw_watch.debounce`) and `BUILDER_CONTEXT` are not in this repository, and the spec does not describe them. `Press` models only what `PigweedBuildWatcher` relies on: a press while a build runs calls `cancel()`, and a pending press later makes the debouncer thread call `run()` and then `on_complete()`. `Press` is an interface assumption, so it is not in the map. `presses` bounds the number of presses by `MaxPresses`. `changeSeq`, `runStartSeq` and `builtSeq` are history variables: they number the handled changes and the change each build started after.

Fairness is weak fairness on `Run`, `RunRecipe`, `RecipeFinished` and `Complete`. These steps are taken by the debouncer's timer thread and by the pool's worker threads, which keep running once they are enabled. There is no fairness on file events or key presses, since those come from the user.

### PicoFlasher (`rp2040_utils/flasher.py` 43-243)

Time is an integer clock in ticks of 0.1 s since `start_time`. Only `time.sleep` advances it: `DetectSleep` = 3, `RetrySleep` = 1 and `ResetSleep` = 5 ticks, against `Timeout` = 100. The USB bus is the environment. `Enumerate` brings the flashed board's port back at any moment, or never. `enumAt` records the clock when it did.

| Definition | Code |
|---|---|
| `find_elf` | `find_elf`: the binary itself, or the first of the three ELF locations that exists. |
| `LoadDebugProbe` | `_load_debugprobe_binary`: find_elf, then `probe-rs download`, then `reset`, each of which may fail. On success it sleeps 0.5 s. |
| `LoadPicotool` | `_load_picotool_binary`: `picotool load -x` fails, or reboots the board, whose port then disappears. |
| `WaitHead` | The head of `_wait_for_serial_port`'s loop. This is the only deadline check. With no known port it sleeps 0.3 s. |
| `Detect` | The scan of `detect_boards()` for a board on the same bus and port (`DetectedPort`). |
| `Connect` | `serial.Serial(port)`. A `SerialException` sleeps 0.1 s. |

The model states no liveness and assumes no fairness. The loop ends on `time.monotonic()` whatever its body does, and in this model time passes only through sleeps, so a termination property would show something about the model rather than about the code. The one real way not to return is a call that blocks, and that cannot be expressed here.

### PicoTestRunner (`rp2040_utils/unit_test_runner.py` 93-240)

This module is the same wait loop as `PicoFlasher`, in `PiPicoTestingDevice.load_binary`, plus `main`:

- `Main` covers three paths. The auto-detect path raises `DeviceNotFound` when nothing is attached, or tests the first board found, with its serial port or none. The command-line path uses the board given by the arguments.
- `SerialPortName` is `serial_port()`, which returns the string `'None'` for a missing port. That string is truthy, so `Connect` tries to open it on every turn.
- `RunTest` stands for `serial_test_runner.run_device_test`, which is outside this repository. A test that was not loaded fails; a loaded one passes or fails.
- `Exit` is the end of `main`. `sys.exit(0 if test_passed else 1)` sits only in the `else` branch.

### LogPaneControl (`pw_console/log_pane.py` 79-497, `widgets/mouse_handlers.py` 21-46)

prompt_toolkit sends a mouse event to the widget under the pointer. A drag that starts on the log lines can therefore end over a bottom-toolbar button (`ReleaseOnToolbar`, i.e. `on_click`) or over another pane (`ReleaseAway`). In both cases the content control never sees the release.

| Variable or definition | Code |
|---|---|
| `drag_start`, `drag_stop` | `visual_select_mode_drag_start` and `visual_select_mode_drag_stop` |
| `selection` | The LogView's visually selected lines. |
| `MouseMove` | `MOUSE_MOVE` with the left button: clears a finished drag's selection, sets the flags, and selects the line. |
| `ReleaseOnContent` | `MOUSE_UP`: stops a drag that has started, and moves the focus (`ClickFocus`) to the save-as dialog, the search bar or the content. |
| `KeyToggle`, `KeyVisualSelect`, `KeyFilter` | The content control's key bindings that change pane state. |
| `start_search` … `clear_history` | The `LogPane` methods behind the toolbar buttons and keys. |
| `Render` | `update_pane_size`. A zero dimension is skipped. The content height subtracts each visible toolbar. |

`curDrag`, `lastMove` and `afterDrag` are history variables that the properties need. The model has no fairness, because every step is a user action.

### LogPanes (`pw_console/log_pane.py` 96-102, 275-280, 421-641)

The window manager is outside this repository, so the model keeps its pane list (`panes`) and the log store's viewers (`viewers`). Removal goes through `window_manager.remove_pane`, and registration through `LogStore.register_viewer`. Both are outside this repository, so whether a removed pane stays registered cannot be read from this code, and no property states it.

- `Duplicate` is `duplicate` / `create_duplicate`. It registers the new LogView as a viewer and copies the search.
- `RemovePane` is the Delete key and the "Remove pane" menu entry (`MenuPaneOptions`). Both apply only to a duplicate.
- `AddLogHandler` is `add_log_handler`. An unknown level name raises before anything changes.
- `append_pane_subtitle` and `pane_subtitle` model the subtitle. Strings are sequences of words, so `', '.split` is `SplitSep`, a RECURSIVE operator over `SelectInSeq`.

### DeviceLogStream (`pw_system/device.py` 41-121)

The device (the RPC server) and pw_rpc are outside this repository. The device is the environment: it opens a stream when a Listen request arrives, streams entries, and ends the call with an error or a completion. Packets are delivered in order (HDLC over one serial link). A `LogEntry` is reduced to its `line_level` field, `(line << 3) | level`.

| Definition | Code |
|---|---|
| `Init` / `listen_to_log_stream` | `Device.__init__` opens `Logs.Listen` at once. |
| `Receive` | The client's RPC thread runs the pending call's callback for the next packet. `on_next` runs `log_entries_proto_parser`, which masks with `& 0x7` and calls `emit_device_log` (`logger.log(level * 10)` on a logger set to DEBUG). `on_error` runs `handle_log_stream_error`, which opens the stream again. `on_completed` only logs. |

The model has weak fairness on `Receive` and `ServerOpen`. The client's RPC thread keeps reading packets, and the device keeps serving requests. When the device streams or ends a call is up to the device, so those steps have no fairness.

### SoftwareUpdateCli (`pw_software_update/cli.py` 29-292)

The user runs `pw update` one invocation at a time, on three shared paths: the key, the root metadata and the bundle. Each file's content is abstracted to what the protobuf parsers make of it. It is absent (`IOError`), empty, a partial write (`DecodeError`), or a message. A message records its kind, whether it has a body (an empty file parses as the empty message), its signatures, and whether a bundle's root metadata came from an empty file. `keys`, `root_metadata`, `dev_sign` and `update_bundle` are outside this repository, so the model keeps only what the handlers rely on: a key that does not parse raises, and signing adds a signature.

| Definition | Code |
|---|---|
| `generate_key_handler` … `add_root_metadata_to_bundle_handler` | One operator per handler. Each reads and parses its inputs in the code's order and either raises or names the file and content it writes. |
| `Handler` | `_parse_args`'s `set_defaults(func=...)` and `_dispatch_command`. With no subcommand, the help is printed. |
| `Invoke` | `main`. A handler's exception ends the run (`ExitOf`): an `IOError` is printed and the exit status is 0; any other exception is a traceback and exit status 1. Otherwise `write_bytes` opens the output, truncating it. |
| `Write`, `WriteFails`, `Kill` | The bytes are written; or the write fails (caught as `IOError`, printed, exit status 0); or the process is killed between the truncation and the write. |

The model has no fairness: every step is the user's, and the user may stop at any point (so deadlock is not checked). `faulted` is a history variable.

### NextMeeting (`pw_docgen/sphinx/pigweed_live.py` 25-120)

Time is a count of hours of US/Pacific wall time (`now`). `Tick` advances it up to `MaxTime`. A meeting string is the hour that `strptime` and `localize` make of it. The build machine's clock reads Pacific time plus the constant `MachineOffset`, and `localize(datetime.now())` labels that reading Pacific. The page's text (the wording, `strftime`, PDT/PST) is abstracted to the meeting it names.

| Definition | Code |
|---|---|
| `Load` | Importing the extension. The `try` around `import pytz`, then the class body, which calls `pytz.timezone` at import. Without pytz this raises `NameError`, so `setup()`'s `PYTZ_AVAILABLE` test is never reached. |
| `FindNextMeeting` | The `for` loop of `_find_next_meeting` as a RECURSIVE operator. It skips a meeting earlier than the current time (`continue`) and takes the first other one (`break`). When the list runs out it gives `{}` (`None`). |
| `Build` | One docs build: `run`, `_make_paragraph` and `_find_next_meeting`. It shows a meeting, or ends the build with `sys.exit`. |

`PageShowsNextMeeting` checks the loop against a reference definition: the `Min` of the listed meetings that have not started at build time. There is no fairness, since docs are built whenever someone builds them.

## 4. Runs

| Run | Expect | What it shows |
|---|---|---|
| `watch_dirs` | pass | `PW_ROOT` may be the working directory, a checkout inside it, a directory outside it, or unset. The build directory is `out`, the upstream default. The user's exclude list is flat. For the exclude list that `watch_setup` builds from these, each change to a file outside the excluded directories is reported exactly once. A change inside an excluded directory is not reported at all. The setup's error paths (`KeyError`, not installed, an observer failing part-way) are explored in the same run. |
| `watch_dirs_nested` | violation | A build directory `out/cmake` sits beside the common exclude `out`, so a change in `out/` is reported (finding). |
| `watch_dirs_outside` | violation | A build directory outside cwd crashes the setup with `ValueError` (finding). |
| `build_watcher` | pass | Every handled change is eventually covered by a completed build that was not cancelled and that started after the change (`ChangeEventuallyBuilt`). |
| `pico_flasher` | pass | `flash` opens only the target's port and never another Pico's on the same bus. It times out only if the port was still missing at 10 s, and it overruns the deadline by at most one 0.3 s sleep (`TypeOK`). |
| `pico_runner` | pass | `load_binary` opens the port of the board it flashed, even with a second Pico on the same bus. |
| `pico_runner_exit` | violation | On the auto-detect path a failing test exits with status 0 (finding). |
| `log_pane_control` | pass | Under any order of user actions the drag flags stay in one of their three states, and a drag selects every line it passes. |
| `log_panes` | pass | The original pane stays, and every other pane is a duplicate that can be removed. |
| `software_update` | pass | Over six invocations, a file is left truncated, partial, or built from an empty message only by a killed run or a failed write, never by a command failing on a missing or corrupt input (`DamageOnlyAfterFault`). A run that exits 0 without printing an error has written what it meant to (`NoSilentFailure`). |
| `next_meeting` | pass | On a build machine on Pacific time, every build names the earliest listed meeting that has not started (the model's clock counts whole hours, so a build at a meeting's exact start instant still names it; the code's `>` against `datetime.now()`, which has microseconds, skips a meeting as soon as it has started). A build exits for want of data only once every meeting has started. |
| `device_log_stream` | pass | At most one Listen request is in flight. Each parsed entry reaches the logger at its own level, whatever its line number. A stream that ended with an error is opened again. |

Side checks, not in the run list. Each of these cfg files states a disagreement that the hazards in `PROJECT.json` describe:

- `PicoTestRunner_window.cfg`: `NoTimeoutWhenBackInTime` is violated. The extra attempt to open `'None'` leaves a 0.1 s window before the deadline in which a returned board is missed.
- `WatchDirectories_errors.cfg`: `WatchFailureEndsProcess` is violated when an observer fails with another errno (`EACCES`, an unreadable directory). `watch()` re-raises it, and in fullscreen mode only the daemon thread ends, so the app stays up and never builds.
- `BuildWatcher_announce.cfg`: `BuildAnnouncesChange` is violated. A change during a build restarts it, but `on_complete` clears `matching_path`, so the restarted build prints no "Change detected" line for the file that caused it.
- `NextMeeting_utc.cfg`: `PageShowsNextMeeting` is violated on a machine whose clock is on UTC (`MachineOffset = 8`). Built at hour 6, the page names the meeting at 29, although the one at 13 has not started. `datetime.now()` is local time, labelled Pacific by `localize`.
- `NextMeeting_nopytz.cfg`: `BuildsWithoutPytz` is violated. Without pytz, the class body's `pytz.timezone` raises `NameError` at import, despite the `PYTZ_AVAILABLE` guard.
- `BuildWatcher_gitignored.cfg`: `MatchedChangeHandled` is violated. Exit code 128 counts as ignored.
- `LogPanes_subtitle.cfg`: `SubtitleCountsOthers` is violated. Two loggers show as "+ 2 more".
- `LogPaneControl_drag.cfg`: `SelectionIsCurrentDrag` is violated. A drag released over a toolbar button or another pane leaves `drag_stop` False, so the next drag adds to the old selection instead of replacing it, although the code's comment says a finished drag's selection is cleared.
- `LogPaneControl_inside.cfg`: `SelectionIsCurrentDrag` holds when every drag ends over the log lines.
- `SoftwareUpdateCli_exit.cfg`: `ExitStatusReflectsFailure` is violated. `create-root-metadata` with no key file prints the `IOError`, and `main` returns 0. Every handler catches `IOError`, so a script cannot tell a failed step from a successful one.

Bounds:

- The directory tree has 9 directories. It contains a nested `out/cmake` and `out/host`, a plain subtree `a/x`, a legacy `.cipd`, and a directory outside cwd. That is enough for a recursive watch, a flat watch, a legacy exclude, a nested exclude and an outside exclude. Each setup path is reached: each root variable set, unset, or pointing outside cwd.
- The build watcher has 3 recipes, one of them disabled. This exercises the `enabled` early return and the worker limit, since 2 workers are fewer than the 2 enabled recipes plus a queued one.
- There are 2 paths: one matching, and one that does not match. Directory events are also included.
- `MaxPresses = 3` allows the initial build, a change during a build, and a change after it.

- The Pico modules use two boards on the same USB bus but on different ports, so a scan that compares only the bus picks the wrong board. `Timeout` = 100 ticks with sleeps of 3, 1 and 5 ticks keeps the real ratios of the code's 10 s, 0.3 s, 0.1 s and 0.5 s.
- The log pane uses 2 lines, which is enough for a drag to extend or replace a selection. Heights {0, 4} with toolbar height 1 give a zero, a positive and (with every toolbar shown) a zero content height.
- There are 3 pane ids, with at most 2 handlers per pane and one invalid level name.
- The software update CLI uses 6 invocations and 2 signatures. Six invocations are enough to create a key, create and sign root metadata, create a bundle, add the root to it, and still have one run that fails or is killed.
- Pigweed Live uses meetings at hours 13, 29 and 61 and `MaxTime = 64`. This is a fortnight compressed to 16 hours, then a longer gap for a skipped holiday. Every spacing is wider than a time-zone offset, and a build happens at each hour, including each meeting's start and after the last meeting.
- The device log stream uses line numbers {0, 1} (a nonzero line sets bits above the level), 2 entries and 2 call ends: an error followed by a completion, or two errors.

Each property of a passing run has a mutant in `PROJECT.json`: a plausible bug in the code that TLC catches.

## 5. Not modelled

- Console output, the fullscreen Textual/prompt_toolkit app, the docs HTTP server and logging setup. These are I/O only.
- Ctrl-C handling (`on_keyboard_interrupt`, `exit_on_keyboard_interrupt`), which calls `os._exit`.
- The internals of the debouncer and `BUILDER_CONTEXT`, which are outside this repository. They are treated as an interface, as described above.
- `serial_test_runner`, LogView, the window manager, pw_rpc, and the device's log server. These are outside this repository; the models keep only the behaviour that the code here relies on.
- Packet loss on the device's serial link. With no stream timeout, a lost error packet would stop the logs for good (a hazard in `PROJECT.json`).
- The contents of the software update files: the protobuf fields, keys and signatures themselves. The model keeps only whether each file parses and whether it was built from an empty file.
- Daylight-saving changes of the build machine's offset from Pacific time, and the PDT/PST label: the offset is a constant per machine.
- The tokenizer decoder (`pw_tokenizer/py/decode_test.py`). The decoder itself is not under `src/`. Only its tests are, and they fix input/output pairs, with no state and no interleaving. A model would be written from the spec alone and could only restate those pairs. Every run slot of the project is taken by a question about code under `src/`, which is worth more than such a run.
- The stateless tools listed in the inventory.
