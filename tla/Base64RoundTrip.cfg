SPECIFICATION Spec
CONSTANT Inputs <- TestInputs
PROPERTY RoundTrip
