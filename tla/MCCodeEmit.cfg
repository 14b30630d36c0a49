SPECIFICATION Spec
CONSTANT Ops <- MCOps
INVARIANTS Encodable SameEffect
