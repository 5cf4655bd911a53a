\* One session's injector with two messages and one request to clear; the
\* word "/clear" is shortened to two keys.
SPECIFICATION FairSpec
CONSTANTS
  Msgs = {m1, m2}
  Clears = {k1}
  Keys = {"char", "erase", "word", "recall", "paste", "pasteline", "enter", "kill"}
  ClearKeys = 2
  MaxLine = 2
INVARIANTS InjectorTypeOK SubmittedOnce
PROPERTIES AnswersNoDialog ReportedClearIsReal GateReleases
CHECK_DEADLOCK FALSE
