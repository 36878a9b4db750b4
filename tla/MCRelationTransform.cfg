CONSTANT FanoutSpecs <- MCFanoutSpecs
SPECIFICATION Spec
INVARIANT TypeOK
INVARIANT TemplateMatchesLayout
