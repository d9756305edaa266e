\* An application middleware between the observers and the finalizer that returns
\* an error of its own, and Fiber's default ErrorHandler.
SPECIFICATION Spec
CONSTANT Setups <- MCRogueUnderOne
INVARIANTS RogueErrorIsRenderedAgain
\* a request ends
CHECK_DEADLOCK FALSE
