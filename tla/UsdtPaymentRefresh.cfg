SPECIFICATION FairSpec
CONSTANTS
  Orders = {o1}
  Workers = {w1, w2}
  Creators = {n1, n2}
  Queries = {q1}
  MaxFaults = 2
INVARIANTS PaymentInv OnceEach
PROPERTIES LifecycleSpec ListedSettled
