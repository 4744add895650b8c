SPECIFICATION Spec
CONSTANTS
    PlainFlags = {"b_verbose"}
INVARIANTS TypeOK FormKept CopiesAgree PrefixIffWords
