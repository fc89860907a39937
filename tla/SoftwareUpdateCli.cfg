\* Six invocations: enough to make a key, create root metadata, have a
\* signing run killed, sign the truncated file, create a bundle and add
\* the root to it.
CONSTANTS
    KeyFile = KeyFile
    RootFile = RootFile
    BundleFile = BundleFile
    MaxSigs = 2
    MaxRuns = 6
SPECIFICATION Spec
INVARIANTS
    TypeOK
    DamageOnlyAfterFault
    NoSilentFailure
\* After the last invocation the user runs no more commands.
CHECK_DEADLOCK FALSE
