SPECIFICATION Spec
INVARIANT
  SafelyDestroyed
