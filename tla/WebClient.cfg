\* Two views of one machine, whose host key may have changed.
CONSTANTS
    Views = {v1, v2}
    Fingerprints = {f1, f2}
    None = None
SPECIFICATION FairSpec
INVARIANT HostKeyTrusted
INVARIANT PromptHasWaiter
PROPERTY LeavingHangsUp
