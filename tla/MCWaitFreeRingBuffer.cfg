SPECIFICATION Spec
CONSTANTS
  Size = 4
  Items = {f1, f2}
  NoItem = NoItem
  Torn = Torn
SYMMETRY Interchangeable
INVARIANTS
  TypeOK
  CopiesDisjoint
  ProducerNeverUnderestimates
  ConsumerNeverOverestimates
PROPERTY
  FifoSpec
