\* A handle is deleted; m_bExit happens to be false before the thread starts.
SPECIFICATION Spec
CONSTANT Garbage = {FALSE}
INVARIANT StreamGoesFirst
