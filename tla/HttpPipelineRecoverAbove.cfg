\* Recover above the finalizer, and Fiber's default ErrorHandler.
SPECIFICATION Spec
CONSTANT Setups <- MCDefault
INVARIANTS RecoverAboveIsSafe
\* a request ends
CHECK_DEADLOCK FALSE
