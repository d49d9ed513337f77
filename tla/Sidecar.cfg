\* Two concurrent calls, each any tool on any of two objects, one of them a
\* service binding; any request lost, refused or answered too late; two polls.
SPECIFICATION Spec
CONSTANTS
  Calls = {c1, c2}
  Objects = {class, binding}
  Bindings = {binding}
  MaxPolls = 2
  Nobody = Nobody
  Earlier = Earlier
INVARIANTS
  AnswersAreTrue
PROPERTIES
  EveryCallAnswered
  KeepsPromise
CHECK_DEADLOCK FALSE
